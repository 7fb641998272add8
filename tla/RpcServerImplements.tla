------------------------- MODULE RpcServerImplements -------------------------
(***************************************************************************)
(* How the state of the C server and its clients represents that of        *)
(* RpcService: a connection is a call, made when its request is sent and   *)
(* executed when a thread has run the switch on its payload.               *)
(***************************************************************************)
EXTENDS RpcServer

(* The threads that have executed the request of connection c.             *)
Executors(c) ==
    {t \in Conns : thread[t].pc \notin {"none", "start"} /\ thread[t].args["payload"] = c}

InProgress(c) == \E k \in Clients : call[k] = c

StateOf(c) ==
    IF net[c].request = NoRequest THEN "idle"
    ELSE CASE InProgress(c) /\ Executors(c) = {}        -> "called"
           [] InProgress(c) /\ Executors(c) # {}        -> "executed"
           [] ~InProgress(c) /\ net[c].replies = <<>>   -> "failed"
           [] ~InProgress(c) /\ net[c].replies # <<>>   -> "returned"

(* The value on its way, then the one the client has received.             *)
ValueOf(c) ==
    CASE StateOf(c) = "executed" -> thread[CHOOSE t \in Executors(c) : TRUE].reply.value
      [] StateOf(c) = "returned" -> Head(net[c].replies).value
      [] OTHER                   -> 0

Service == INSTANCE RpcService WITH
    Calls     <- Conns,
    Handles   <- Descriptors,
    request   <- [c \in Conns |-> net[c].request],
    state     <- [c \in Conns |-> StateOf(c)],
    value     <- [c \in Conns |-> ValueOf(c)],
    files     <- {d \in Descriptors : fdt[d].kind = "file"}

(***************************************************************************)
(* With one client the server, its threads, the reused descriptors and     *)
(* `argument' behave as a service that executes each call once, atomically *)
(* and answers it: no thread serves a connection twice or for another, and *)
(* nothing but a client's own OPEN and CLOSE changes the open files.       *)
(***************************************************************************)
ImplementsService == Service!Spec
=============================================================================
