------------------------------ MODULE RpcServer ------------------------------
(***************************************************************************)
(* The C RPC server, src/c/server.c: the accept loop of main(), one        *)
(* client_handler thread per connection, the pthread_join barrier after    *)
(* BatchSize threads, and the three resources they share: the descriptor   *)
(* table of the process, the heap blocks that hold request payloads, and   *)
(* `argument', the ONE thread_arg on main's stack whose address every      *)
(* thread is given.  main overwrites it for the next connection without    *)
(* waiting for the thread to have copied it, so each field is stored and   *)
(* loaded in a step of its own, in any order.                              *)
(*                                                                         *)
(* Connections are numbered in the order they are accepted; thread c is    *)
(* the one created for connection c, payload c the block malloc'ed for it. *)
(* The clients are the processes linked with rpc_stubs.c, seen from the    *)
(* server: connect, send one request, receive one reply, close.            *)
(***************************************************************************)
EXTENDS Integers, Sequences, FiniteSets

CONSTANTS
    Clients,      \* client processes; each has at most one call in progress
    Functions,    \* the kinds of request the clients make, see Kinds
    BatchSize,    \* threads created before main joins them all (50)
    Slots,        \* length of the array thread_id (60)
    Descriptors,  \* descriptor numbers left for sockets and files
    MaxConns,     \* bound: connections made
    MaxFaults,    \* bound: library calls that fail and recvs that are short
    MaxAbandons   \* bound: calls a client gives up (killed, or EINTR in recv)

(***************************************************************************)
(* What the twelve request functions do to the state of the server: OPEN   *)
(* and CLOSE change the descriptor table, WRITE is the one handler that    *)
(* uses the payload's size, and OTHER stands for the remaining nine.       *)
(***************************************************************************)
Kinds == {"OPEN", "CLOSE", "WRITE", "OTHER"}

ASSUME ConstantsAssumption ==
    /\ Functions \subseteq Kinds
    /\ BatchSize \in Nat \ {0}
    /\ Slots \in Nat
    /\ BatchSize <= Slots
    /\ Descriptors \subseteq Nat \ {0}
    /\ MaxConns \in Nat
    /\ MaxFaults \in Nat
    /\ MaxAbandons \in Nat

Conns  == 1..MaxConns
Fields == {"payload", "size", "client_socket"}   \* of struct thread_arg

NoFd       == 0      \* the descriptor of a request that names none
NoClient   == "none"
Request    == [fn : Kinds \cup {"NONE", "UNSUPPORTED"}, fd : Descriptors \cup {NoFd}]
NoRequest  == [fn |-> "NONE", fd |-> NoFd]
Reply      == [of : 0..MaxConns, value : Int]
NoReply    == [of |-> 0, value |-> 0]

(***************************************************************************)
(* What a payload block may hold when recv did not fill it: any request,   *)
(* or a function code the switch does not know.                            *)
(***************************************************************************)
Garbage == [fn : (Kinds \ {"CLOSE"}) \cup {"UNSUPPORTED"}, fd : {NoFd}]
           \cup [fn : {"CLOSE"}, fd : Descriptors]

(* Entries of the descriptor table: a connection's socket, a file opened   *)
(* for a connection's request, or nothing.                                 *)
FreeFd    == [kind |-> "free", id |-> 0]
Socket(c) == [kind |-> "sock", id |-> c]
File(c)   == [kind |-> "file", id |-> c]

Entry   == [kind : {"free", "sock", "file"}, id : 0..MaxConns]
Block   == [state : {"none", "live", "freed"}, request : Request]
Thread  == [pc : {"none", "start", "send", "shutdown", "close", "cleanup", "done"},
            args : [Fields -> 0..MaxConns], reply : Reply]
Channel == [client : Clients \cup {NoClient}, request : Request,
            up : BOOLEAN, fin : BOOLEAN, reset : BOOLEAN, replies : Seq(Reply)]

VARIABLES
    main,          \* control point of main()
    thread_index,  \* its local variable
    thread_id,     \* its array of pthread_t, 0 in a slot never used
    argument,      \* its thread_arg: per field, the connection it is of
    accepted,      \* number of connections accepted
    connected,     \* number of connections made; the rest is the backlog
    thread,        \* client_handler threads: control point, copied args, reply
    payload,       \* heap blocks: state and the request they hold
    fdt,           \* descriptor table of the server process
    fdOf,          \* the number accept() returned for each connection
    net,           \* the TCP connections
    call,          \* per client, the connection of its call in progress or 0
    handles,       \* per client, the open remote descriptors it holds
    faults,        \* faults so far
    abandons       \* abandoned calls so far

mainVars   == <<main, thread_index, thread_id, argument, accepted>>
clientVars == <<call, handles, connected, abandons>>
vars == <<main, thread_index, thread_id, argument, accepted, connected, thread,
          payload, fdt, fdOf, net, call, handles, faults, abandons>>

TypeOK ==
    /\ main \in {"accept", "recv", "store", "create", "join", "exited"}
    /\ thread_index \in 0..BatchSize-1
    /\ thread_id \in [0..Slots-1 -> 0..MaxConns]
    /\ argument \in [Fields -> 0..MaxConns]
    /\ accepted \in 0..MaxConns
    /\ connected \in 0..MaxConns
    /\ thread \in [Conns -> Thread]
    /\ payload \in [Conns -> Block]
    /\ fdt \in [Descriptors -> Entry]
    /\ fdOf \in [Conns -> Descriptors \cup {NoFd}]
    /\ net \in [Conns -> Channel]
    /\ call \in [Clients -> 0..MaxConns]
    /\ handles \in [Clients -> SUBSET Descriptors]
    /\ faults \in 0..MaxFaults
    /\ abandons \in 0..MaxAbandons

Init ==
    /\ main = "accept" /\ thread_index = 0 /\ accepted = 0 /\ connected = 0
    /\ thread_id = [i \in 0..Slots-1 |-> 0]
    /\ argument = [f \in Fields |-> 0]
    /\ thread = [t \in Conns |-> [pc |-> "none", args |-> [f \in Fields |-> 0],
                                  reply |-> NoReply]]
    /\ payload = [c \in Conns |-> [state |-> "none", request |-> NoRequest]]
    /\ fdt = [d \in Descriptors |-> FreeFd]
    /\ fdOf = [c \in Conns |-> NoFd]
    /\ net = [c \in Conns |-> [client |-> NoClient, request |-> NoRequest,
                               up |-> FALSE, fin |-> FALSE, reset |-> FALSE,
                               replies |-> <<>>]]
    /\ call = [k \in Clients |-> 0]
    /\ handles = [k \in Clients |-> {}]
    /\ faults = 0 /\ abandons = 0

Running == main # "exited"
CanFail == faults < MaxFaults
Fault   == faults' = faults + 1

FreeFds  == {d \in Descriptors : fdt[d] = FreeFd}
LowestFd == {d \in FreeFds : \A e \in FreeFds : d <= e}   \* at most one

-----------------------------------------------------------------------------
(* The clients. *)

(* connect(): completed by the kernel, which queues the connection.        *)
Connect(k) ==
    /\ Running /\ call[k] = 0 /\ connected < MaxConns
    /\ connected' = connected + 1
    /\ call' = [call EXCEPT ![k] = connected + 1]
    /\ net' = [net EXCEPT ![connected + 1].client = k, ![connected + 1].up = TRUE]
    /\ UNCHANGED <<mainVars, thread, payload, fdt, fdOf, handles, faults, abandons>>

(* send(): the whole request in one call.  A client closes a descriptor it *)
(* holds, once.                                                            *)
Send(k, r) ==
    /\ call[k] # 0 /\ net[call[k]].request = NoRequest
    /\ r.fn \in Functions
    /\ r.fd \in IF r.fn = "CLOSE" THEN handles[k] ELSE {NoFd}
    /\ net' = [net EXCEPT ![call[k]].request = r]
    /\ handles' = [handles EXCEPT ![k] = @ \ {r.fd}]
    /\ UNCHANGED <<mainVars, connected, thread, payload, fdt, fdOf, call, faults, abandons>>

(* recv() returned a reply: the stub closes its socket and the call        *)
(* returns.  Data left unread in the socket makes that close a reset.      *)
ReceiveReply(k) ==
    LET c == call[k] IN
    /\ c # 0 /\ net[c].request # NoRequest /\ net[c].replies # <<>>
    /\ call' = [call EXCEPT ![k] = 0]
    /\ net' = [net EXCEPT ![c].up = FALSE, ![c].reset = net[c].reset \/ Len(net[c].replies) > 1]
    /\ handles' = [handles EXCEPT ![k] =
                     IF net[c].request.fn = "OPEN"
                     THEN @ \cup ({Head(net[c].replies).value} \cap Descriptors)
                     ELSE @]
    /\ UNCHANGED <<mainVars, connected, thread, payload, fdt, fdOf, faults, abandons>>

(* The connection ended without a reply: the call returns all the same.    *)
ReceiveNothing(k) ==
    LET c == call[k] IN
    /\ c # 0 /\ net[c].replies = <<>>
    /\ net[c].fin \/ ~Running
    /\ call' = [call EXCEPT ![k] = 0]
    /\ net' = [net EXCEPT ![c].up = FALSE]
    /\ UNCHANGED <<mainVars, connected, thread, payload, fdt, fdOf, handles, faults, abandons>>

(* The client is killed, or a signal interrupts its recv() and the stub    *)
(* closes the socket; its program goes on, or is run again.                *)
Abandon(k) ==
    LET c == call[k] IN
    /\ c # 0 /\ abandons < MaxAbandons
    /\ abandons' = abandons + 1
    /\ call' = [call EXCEPT ![k] = 0]
    /\ net' = [net EXCEPT ![c].up = FALSE,
                           ![c].reset = net[c].reset \/ net[c].replies # <<>>]
    /\ UNCHANGED <<mainVars, connected, thread, payload, fdt, fdOf, handles, faults>>

-----------------------------------------------------------------------------
(* main(). *)

(* cleanup: and signal_handler: the process ends, its threads with it.     *)
Exit ==
    /\ main' = "exited"
    /\ UNCHANGED <<thread_index, thread_id, argument, accepted, clientVars, thread,
                   payload, fdt, fdOf, net>>

(* accept() takes the lowest free descriptor; with none left it fails.     *)
Accept ==
    /\ main = "accept" /\ accepted < connected
    /\ accepted' = accepted + 1
    /\ \E d \in LowestFd : /\ fdt' = [fdt EXCEPT ![d] = Socket(accepted + 1)]
                           /\ fdOf' = [fdOf EXCEPT ![accepted + 1] = d]
    /\ main' = "recv"
    /\ UNCHANGED <<thread_index, thread_id, argument, thread, payload, net, clientVars, faults>>

AcceptNoFd ==
    /\ main = "accept" /\ accepted < connected
    /\ FreeFds = {}
    /\ Exit /\ UNCHANGED faults

(* Mutant of Receive: recv is repeated until there is a request.           *)
ReceiveWhole ==
    /\ main = "recv" /\ net[accepted].request # NoRequest
    /\ payload' = [payload EXCEPT ![accepted] =
                     [state |-> "live", request |-> net[accepted].request]]
    /\ main' = "store"
    /\ UNCHANGED <<thread_index, thread_id, argument, accepted, thread, fdt, fdOf, net,
                   clientVars, faults>>

(***************************************************************************)
(* recv() of the size, malloc, recv() of the payload.  Neither recv checks *)
(* how much arrived: at the end of the stream (the client is gone) or      *)
(* after a short read the block keeps whatever it held.                    *)
(***************************************************************************)
Receive ==
    /\ main = "recv"
    /\ \/ /\ net[accepted].request # NoRequest
          /\ payload' = [payload EXCEPT ![accepted] =
                           [state |-> "live", request |-> net[accepted].request]]
          /\ UNCHANGED faults
       \/ /\ \/ ~net[accepted].up /\ net[accepted].request = NoRequest /\ UNCHANGED faults
             \/ net[accepted].request # NoRequest /\ CanFail /\ Fault
          /\ \E g \in Garbage :
               payload' = [payload EXCEPT ![accepted] = [state |-> "live", request |-> g]]
    /\ main' = "store"
    /\ UNCHANGED <<thread_index, thread_id, argument, accepted, thread, fdt, fdOf, net, clientVars>>

(* Mutants of Store: argument is only initialised once, or the thread is   *)
(* created as soon as one field is stored.                                 *)
StoreOnce(f) ==
    /\ main = "store"
    /\ argument' = [argument EXCEPT ![f] = IF @ = 0 THEN accepted ELSE @]
    /\ main' = IF \A g \in Fields \ {f} : argument[g] # 0 THEN "create" ELSE "store"
    /\ UNCHANGED <<thread_index, thread_id, accepted, thread, payload, fdt, fdOf, net,
                   clientVars, faults>>

StoreTooFew(f) ==
    /\ main = "store" /\ argument[f] # accepted
    /\ argument' = [argument EXCEPT ![f] = accepted]
    /\ main' = "create"
    /\ UNCHANGED <<thread_index, thread_id, accepted, thread, payload, fdt, fdOf, net,
                   clientVars, faults>>

(* argument = (thread_arg) {...}: one store per field.                     *)
Store(f) ==
    /\ main = "store" /\ argument[f] # accepted
    /\ argument' = [argument EXCEPT ![f] = accepted]
    /\ main' = IF \A g \in Fields \ {f} : argument[g] = accepted THEN "create" ELSE "store"
    /\ UNCHANGED <<thread_index, thread_id, accepted, thread, payload, fdt, fdOf, net,
                   clientVars, faults>>

(* Mutants of CreateThread: the barrier's test is `>', or main frees the   *)
(* payload as if the thread had copied it.                                 *)
CreateThreadLateBarrier ==
    /\ main = "create"
    /\ thread_id' = [thread_id EXCEPT ![thread_index] = accepted]
    /\ thread' = [thread EXCEPT ![accepted].pc = "start"]
    /\ IF thread_index + 1 > BatchSize
       THEN main' = "join" /\ thread_index' = 0
       ELSE main' = "accept" /\ thread_index' = thread_index + 1
    /\ UNCHANGED <<argument, accepted, payload, fdt, fdOf, net, clientVars, faults>>

CreateThreadAndFree ==
    /\ main = "create"
    /\ thread_id' = [thread_id EXCEPT ![thread_index] = accepted]
    /\ thread' = [thread EXCEPT ![accepted].pc = "start"]
    /\ payload' = [payload EXCEPT ![accepted].state = "freed"]
    /\ IF thread_index + 1 >= BatchSize
       THEN main' = "join" /\ thread_index' = 0
       ELSE main' = "accept" /\ thread_index' = thread_index + 1
    /\ UNCHANGED <<argument, accepted, fdt, fdOf, net, clientVars, faults>>

(* pthread_create(&thread_id[thread_index++], ...), then the test of       *)
(* thread_index that starts the barrier.                                   *)
CreateThread ==
    /\ main = "create"
    /\ thread_id' = [thread_id EXCEPT ![thread_index] = accepted]
    /\ thread' = [thread EXCEPT ![accepted].pc = "start"]
    /\ IF thread_index + 1 >= BatchSize
       THEN main' = "join" /\ thread_index' = 0
       ELSE main' = "accept" /\ thread_index' = thread_index + 1
    /\ UNCHANGED <<argument, accepted, payload, fdt, fdOf, net, clientVars, faults>>

(* Mutant of Join: it does not wait for the thread.                        *)
JoinNoWait ==
    /\ main = "join"
    /\ IF thread_index + 1 < BatchSize
       THEN main' = "join" /\ thread_index' = thread_index + 1
       ELSE main' = "accept" /\ thread_index' = 0
    /\ UNCHANGED <<thread_id, argument, accepted, thread, payload, fdt, fdOf, net,
                   clientVars, faults>>

(* pthread_join(thread_id[thread_index++]), until all BatchSize are joined. *)
Join ==
    /\ main = "join"
    /\ thread[thread_id[thread_index]].pc = "done"
    /\ IF thread_index + 1 < BatchSize
       THEN main' = "join" /\ thread_index' = thread_index + 1
       ELSE main' = "accept" /\ thread_index' = 0
    /\ UNCHANGED <<thread_id, argument, accepted, thread, payload, fdt, fdOf, net,
                   clientVars, faults>>

(* accept, recv, malloc, pthread_create or pthread_join fails.             *)
MainFails ==
    /\ main \in {"accept", "recv", "create", "join"}
    /\ CanFail /\ Fault
    /\ Exit

(* SIGINT: signal_handler closes the server socket and exits.              *)
Sigint ==
    /\ Running /\ CanFail /\ Fault
    /\ Exit

-----------------------------------------------------------------------------
(* client_handler(), in thread t. *)

At(t, pc) == Running /\ thread[t].pc = pc
Goto(t, pc) == thread' = [thread EXCEPT ![t].pc = pc]

(* payload = args->payload, and so on: one load per field.                 *)
Load(t, f) ==
    /\ At(t, "start") /\ thread[t].args[f] = 0
    /\ thread' = [thread EXCEPT ![t].args[f] = argument[f]]
    /\ UNCHANGED <<mainVars, clientVars, payload, fdt, fdOf, net, faults>>

Loaded(t) == At(t, "start") /\ \A f \in Fields : thread[t].args[f] # 0

(* The request thread t finds in its payload; a block that another thread  *)
(* has freed may hold anything.                                            *)
Decoded(t) ==
    LET p == payload[thread[t].args["payload"]] IN
    IF p.state = "live" THEN {p.request} ELSE Garbage

(* Mutants of Opened and Closed: the number returned is off by one, and    *)
(* close() is not called.                                                  *)
OpenedOffByOne(c) ==
    {[table |-> fdt, value |-> -1]}
    \cup {[table |-> [fdt EXCEPT ![d] = File(c)], value |-> d + 1] : d \in LowestFd}

ClosedNot(d) == {[table |-> fdt, value |-> 0]}

(* What open() and close() do to the descriptor table and return, and what *)
(* executing r for connection c may do (the others leave the table alone). *)
Opened(c) ==
    {[table |-> fdt, value |-> -1]}
    \cup {[table |-> [fdt EXCEPT ![d] = File(c)], value |-> d] : d \in LowestFd}

Closed(d) ==
    {[table |-> [fdt EXCEPT ![d] = FreeFd],
      value |-> IF fdt[d] = FreeFd THEN -1 ELSE 0]}

Outcomes(r, c) ==
    CASE r.fn = "OPEN"  -> Opened(c)
      [] r.fn = "CLOSE" -> Closed(r.fd)
      [] OTHER          -> {[table |-> fdt, value |-> 0]}

(* A connection whose socket disappears from the table is closed.          *)
NetAfter(table) ==
    [c \in Conns |->
       IF \E d \in Descriptors : fdt[d] = Socket(c) /\ table[d] # Socket(c)
       THEN [net[c] EXCEPT !.fin = TRUE]
       ELSE net[c]]

(* Mutant of Execute: a request that fails is not answered.                *)
ExecuteDropsErrors(t) ==
    LET p == thread[t].args["payload"] IN
    /\ Loaded(t)
    /\ \E r \in Decoded(t) : \E o \in Outcomes(r, p) :
         /\ r.fn # "UNSUPPORTED"
         /\ fdt' = o.table
         /\ net' = NetAfter(o.table)
         /\ thread' = [thread EXCEPT ![t].pc = IF o.value = -1 THEN "cleanup" ELSE "send",
                                     ![t].reply = [of |-> p, value |-> o.value]]
    /\ UNCHANGED <<mainVars, clientVars, payload, fdOf, faults>>

(* The switch: perform the request, build the response.                    *)
Execute(t) ==
    LET p == thread[t].args["payload"] IN
    /\ Loaded(t)
    /\ \E r \in Decoded(t) : \E o \in Outcomes(r, p) :
         /\ r.fn # "UNSUPPORTED"
         /\ fdt' = o.table
         /\ net' = NetAfter(o.table)
         /\ thread' = [thread EXCEPT ![t].pc = "send",
                                     ![t].reply = [of |-> p, value |-> o.value]]
    /\ UNCHANGED <<mainVars, clientVars, payload, fdOf, faults>>

(* goto cleanup from the switch: an unsupported function, or malloc fails, *)
(* for OPEN and CLOSE once they are performed.                             *)
ExecuteFails(t) ==
    LET p == thread[t].args["payload"] IN
    /\ Loaded(t)
    /\ \E r \in Decoded(t) :
         \/ /\ r.fn = "UNSUPPORTED"
            /\ UNCHANGED <<fdt, net, faults>>
         \/ /\ r.fn # "UNSUPPORTED"
            /\ CanFail /\ Fault
            /\ \E o \in Outcomes(r, p) : fdt' = o.table /\ net' = NetAfter(o.table)
    /\ Goto(t, "cleanup")
    /\ UNCHANGED <<mainVars, clientVars, payload, fdOf>>

(* WRITE reads nbyte at payload + payload_size - 8: with the size of       *)
(* another connection's payload the memcpy that follows may crash.         *)
WildWriteAborts(t) ==
    /\ Loaded(t)
    /\ \E r \in Decoded(t) : r.fn = "WRITE"
    /\ thread[t].args["size"] # thread[t].args["payload"]
    /\ Exit /\ UNCHANGED faults

(* The table entry that thread t's client_socket now refers to.            *)
Peer(t) == fdt[fdOf[thread[t].args["client_socket"]]]

(* Mutants of SendReply: it repeats a send that worked, or one that fails. *)
SendReplyRepeats(t) ==
    /\ At(t, "send")
    /\ Peer(t).kind = "sock"
    /\ net' = [net EXCEPT ![Peer(t).id].replies = Append(@, thread[t].reply)]
    /\ UNCHANGED <<mainVars, clientVars, thread, payload, fdt, fdOf, faults>>

SendReplyRetries(t) ==
    /\ At(t, "send")
    /\ Peer(t).kind = "sock"
    /\ net' = [net EXCEPT ![Peer(t).id].replies = Append(@, thread[t].reply)]
    /\ Goto(t, "shutdown")
    /\ UNCHANGED <<mainVars, clientVars, payload, fdt, fdOf, faults>>

(* send(client_socket, ...) < 0 goes to cleanup; the socket stays open.    *)
(* Data sent to a client that has closed comes back as a reset.            *)
SendReply(t) ==
    /\ At(t, "send")
    /\ \/ /\ Peer(t).kind = "sock" /\ ~net[Peer(t).id].fin
          /\ LET c == Peer(t).id IN
               net' = [net EXCEPT ![c].replies = Append(net[c].replies, thread[t].reply),
                                  ![c].reset = net[c].reset \/ ~net[c].up]
          /\ Goto(t, "shutdown")
          /\ UNCHANGED faults
       \/ /\ \/ (Peer(t).kind = "sock" => net[Peer(t).id].reset) /\ UNCHANGED faults
             \/ Peer(t).kind = "sock" /\ CanFail /\ Fault
          /\ Goto(t, "cleanup")
          /\ UNCHANGED net
    /\ UNCHANGED <<mainVars, clientVars, payload, fdt, fdOf>>

(* send() on a connection that another thread has shut down, or that is    *)
(* reset, raises SIGPIPE, which nobody handles: the process ends.          *)
SendKills(t) ==
    /\ At(t, "send")
    /\ Peer(t).kind = "sock" /\ (net[Peer(t).id].fin \/ net[Peer(t).id].reset)
    /\ Exit /\ UNCHANGED faults

(* shutdown(client_socket, SHUT_WR) < 0 goes to cleanup as well: on what   *)
(* is no socket, and with ENOTCONN once a reset has arrived.               *)
Shutdown(t) ==
    /\ At(t, "shutdown")
    /\ \/ /\ Peer(t).kind = "sock"
          /\ net' = [net EXCEPT ![Peer(t).id].fin = TRUE]
          /\ Goto(t, "close")
       \/ /\ Peer(t).kind = "sock" => net[Peer(t).id].reset
          /\ Goto(t, "cleanup")
          /\ UNCHANGED net
    /\ UNCHANGED <<mainVars, clientVars, payload, fdt, fdOf, faults>>

(* close(client_socket): whatever that number now is.                      *)
CloseSocket(t) ==
    LET d == fdOf[thread[t].args["client_socket"]]
        table == [fdt EXCEPT ![d] = FreeFd]
    IN /\ At(t, "close")
       /\ fdt' = table
       /\ net' = NetAfter(table)
       /\ Goto(t, "cleanup")
       /\ UNCHANGED <<mainVars, clientVars, payload, fdOf, faults>>

(* free(payload); the thread returns.                                      *)
Cleanup(t) ==
    LET p == thread[t].args["payload"] IN
    /\ At(t, "cleanup")
    /\ payload' = [payload EXCEPT ![p].state = "freed"]
    /\ Goto(t, "done")
    /\ UNCHANGED <<mainVars, clientVars, fdt, fdOf, net, faults>>

(* free() of a block already freed: the allocator may notice and abort.    *)
DoubleFreeAborts(t) ==
    /\ At(t, "cleanup")
    /\ payload[thread[t].args["payload"]].state = "freed"
    /\ Exit /\ UNCHANGED faults

-----------------------------------------------------------------------------
ClientStep(k) ==
    \/ \E r \in Request : Send(k, r)
    \/ ReceiveReply(k)
    \/ ReceiveNothing(k)

MainStep == Accept \/ AcceptNoFd \/ Receive \/ (\E f \in Fields : Store(f))
            \/ CreateThread \/ Join

HandlerStep(t) ==
    \/ \E f \in Fields : Load(t, f)
    \/ Execute(t) \/ ExecuteFails(t) \/ WildWriteAborts(t) \/ SendReply(t)
    \/ SendKills(t) \/ Shutdown(t) \/ CloseSocket(t) \/ Cleanup(t) \/ DoubleFreeAborts(t)

Next ==
    \/ \E k \in Clients : Connect(k) \/ ClientStep(k) \/ Abandon(k)
    \/ MainStep \/ MainFails \/ Sigint
    \/ \E t \in Conns : HandlerStep(t)

(* Thread t is about to make, or in, a library call that need not return:  *)
(* open() of a FIFO, read() or write() of one, or of what a stale number   *)
(* has come to denote.                                                     *)
MayBlock  == {"OPEN", "WRITE", "OTHER"}
InCall(t) == Loaded(t) /\ \E r \in Decoded(t) : r.fn \in MayBlock

(***************************************************************************)
(* Fairness: the kernel keeps scheduling the threads of the server and of  *)
(* the clients, so a step that stays possible is taken, but for a call     *)
(* that blocks.  Nothing obliges a client to make another call, and no     *)
(* failure ever has to happen.                                             *)
(***************************************************************************)
Spec == Init /\ [][Next]_vars

FairSpec ==
    /\ Spec
    /\ WF_vars(MainStep)
    /\ \A t \in Conns : WF_vars(~InCall(t) /\ HandlerStep(t))
    /\ \A k \in Clients : WF_vars(ClientStep(k))
-----------------------------------------------------------------------------
(* Properties that hold however many clients there are, and whatever fails. *)

Live(t) == thread[t].pc \notin {"none", "done"}

(* Threads of the current batch, and the number of connections before it.  *)
Created   == IF main \in {"recv", "store", "create"} THEN accepted - 1 ELSE accepted
InBatch   == IF main = "join" THEN BatchSize ELSE thread_index
BatchBase == Created - InBatch

(***************************************************************************)
(* The barrier confines the race on `argument' to one batch: a thread that *)
(* has not finished belongs to the current batch, and each field it copied *)
(* is that of its own connection or of a LATER one of the same batch,      *)
(* never one from before the barrier (whose payload is freed and whose     *)
(* socket is closed).                                                      *)
(***************************************************************************)
RaceConfinedToBatch ==
    Running => \A t \in Conns : Live(t) =>
        /\ BatchBase < t
        /\ t <= BatchBase + BatchSize
        /\ \A f \in Fields : thread[t].args[f] # 0 => thread[t].args[f] \in t..accepted

(***************************************************************************)
(* While main waits at the barrier `argument' is the last connection's, so *)
(* the thread that completes a batch always serves its own connection.     *)
(***************************************************************************)
LastOfBatchServesItself ==
    main = "join" =>
        \A f \in Fields : /\ argument[f] = accepted
                          /\ thread[accepted].args[f] \in {0, accepted}

(***************************************************************************)
(* Every live thread is in a slot of thread_id that main has still to join *)
(* (so none is overwritten unjoined), and every slot used is in the array. *)
(***************************************************************************)
EveryLiveThreadWillBeJoined ==
    Running => \A t \in Conns : Live(t) =>
        \E i \in 0..Slots-1 : /\ thread_id[i] = t
                              /\ i < BatchSize
                              /\ main = "join" => thread_index <= i
                              /\ main # "join" => i < thread_index

(***************************************************************************)
(* The inductive invariant behind the three: main creates the threads of   *)
(* one batch in consecutive slots for consecutive connections, has joined  *)
(* those below thread_index at the barrier, and `argument' only ever holds *)
(* the newest connection or the one before it.                             *)
(***************************************************************************)
BatchInv ==
    Running =>
    /\ 0 <= BatchBase
    /\ Created \in 0..accepted
    /\ \A f \in Fields : /\ argument[f] \in {Created, accepted}
                         /\ main = "create" => argument[f] = accepted
                         /\ main \in {"accept", "recv", "join"} => argument[f] = Created
    /\ \A i \in 0..InBatch-1 : thread_id[i] = BatchBase + i + 1
    /\ \A t \in Conns : /\ thread[t].pc # "none" <=> t <= Created
                        /\ t <= BatchBase => ~Live(t)
                        /\ main = "join" /\ t <= BatchBase + thread_index => ~Live(t)
                        /\ \A f \in Fields : thread[t].args[f] # 0 =>
                              thread[t].pc # "none" /\ thread[t].args[f] \in t..accepted

(***************************************************************************)
(* The barrier opens: nothing keeps main in its join loop for ever but a   *)
(* library call on a client's file that never returns.  Neither the race   *)
(* on `argument', nor sockets closed twice, nor errors of a handler do.    *)
(***************************************************************************)
BarrierOpens ==
    \/ \E t \in Conns : <>[]InCall(t)
    \/ main = "join" ~> main # "join"

(***************************************************************************)
(* main itself waits in recv() for the request, yet it always gets back to *)
(* its loop, or the server ends: a client that goes away before it has     *)
(* sent anything does not keep main from the other clients.                *)
(***************************************************************************)
AcceptLoopGoesOn == main = "recv" ~> main \in {"accept", "join", "exited"}

-----------------------------------------------------------------------------
(* Properties of calls that do not overlap: one client, no abandoned call. *)

(* Each connection is served by the thread created for it.                 *)
ServedByItsThread ==
    \A t \in Conns : \A f \in Fields : thread[t].args[f] \in {0, t}

(* A client is sent at most one reply, and it is the one to its request.   *)
RepliesReachTheirCaller ==
    \A c \in Conns : net[c].replies = <<>> \/
                     (Len(net[c].replies) = 1 /\ Head(net[c].replies).of = c)

(* A payload that a thread is using or will free has not been freed.       *)
NoUseAfterFree ==
    \A t \in Conns : Live(t) /\ thread[t].args["payload"] # 0
                       => payload[thread[t].args["payload"]].state = "live"

(* A descriptor a client holds is a file opened by a request of its own.   *)
HandlesDenoteFiles ==
    Running => \A k \in Clients : \A d \in handles[k] :
        fdt[d].kind = "file" /\ net[fdt[d].id].client = k

(* Client k has asked to close d.                                          *)
Closing(k, d) == call[k] # 0 /\ net[call[k]].request = [fn |-> "CLOSE", fd |-> d]

(***************************************************************************)
(* No file stays open that nobody can close: its descriptor is held by the *)
(* client that opened it, or is on its way there, or its close is.         *)
(***************************************************************************)
NoOrphanedFile ==
    Running => \A d \in Descriptors : fdt[d].kind = "file" =>
        \E k \in Clients : /\ k = net[fdt[d].id].client
                           /\ d \in handles[k] \/ call[k] = fdt[d].id \/ Closing(k, d)

(* Every call returns, unless a library call that executes one never does: *)
(* its client is not left waiting in recv().                               *)
EveryCallReturns ==
    \/ \E t \in Conns : <>[]InCall(t)
    \/ \A k \in Clients : call[k] # 0 ~> call[k] = 0
=============================================================================
