-------------------------------- MODULE SdBus --------------------------------
(***************************************************************************)
(* The D-Bus example: src/c/sd_bus_server.c offers Multiply under a        *)
(* well-known name, src/c/sd_bus_client.c calls it.  Clients and servers   *)
(* are started in any order (the Makefile starts the server in the         *)
(* background and the client at once, and an older server may still run).  *)
(* The bus, external, delivers a call to the owner of the name, fails it   *)
(* if there is none, and fails the calls of an owner that disconnects.     *)
(***************************************************************************)
EXTENDS Integers, Sequences

CONSTANTS
    Servers,    \* server processes
    Clients,    \* client processes, one call each
    Values,     \* arguments of the calls
    Half,       \* the least integer is -Half, the greatest Half - 1 (2^63)
    MaxFaults   \* bound: library calls that fail, calls that time out

NoOwner == "none"
Ints    == -Half..(Half - 1)

ASSUME SdBusAssumption ==
    /\ Half \in Nat \ {0}
    /\ Values \subseteq Ints
    /\ MaxFaults \in Nat
    /\ NoOwner \notin Servers

VARIABLES
    server,   \* per server, its control point
    owner,    \* the server that owns com.example.MySimpleCalculator
    queue,    \* per server, the callers whose messages it has not processed
    client,   \* per client, its control point and the arguments of its call
    reply,    \* per client, the message that answers its call
    found,    \* history: clients whose call the bus could deliver
    faults    \* failures so far

vars == <<server, owner, queue, client, reply, found, faults>>

NoReply  == [kind |-> "none", value |-> 0]
Error    == [kind |-> "error", value |-> 0]
Result(v) == [kind |-> "value", value |-> v]

TypeOK ==
    /\ server \in [Servers -> {"open", "vtable", "name", "process", "wait", "exited"}]
    /\ owner \in Servers \cup {NoOwner}
    /\ queue \in [Servers -> Seq(Clients)]
    /\ client \in [Clients -> [pc : {"open", "call", "waiting", "done", "failed"},
                               a : Values, b : Values]]
    /\ reply \in [Clients -> [kind : {"none", "error", "value"}, value : Ints]]
    /\ found \subseteq Clients
    /\ faults \in 0..MaxFaults

Init ==
    /\ server = [s \in Servers |-> "open"] /\ owner = NoOwner
    /\ queue = [s \in Servers |-> <<>>]
    /\ client \in [Clients -> [pc : {"open"}, a : Values, b : Values]]
    /\ reply = [c \in Clients |-> NoReply]
    /\ found = {} /\ faults = 0

CanFail  == faults < MaxFaults
Fault    == faults' = faults + 1
Waiting(c) == client[c].pc = "waiting" /\ reply[c] = NoReply

-----------------------------------------------------------------------------
(* sd_bus_server.c. *)

Goto(s, pc) == server' = [server EXCEPT ![s] = pc]

(* finish: the connection is dropped.  The bus takes the name back and     *)
(* fails the calls that are unanswered.                                    *)
Finish(s) ==
    /\ Goto(s, "exited")
    /\ owner' = IF owner = s THEN NoOwner ELSE owner
    /\ reply' = [c \in Clients |->
                   IF Waiting(c) /\ \E i \in 1..Len(queue[s]) : queue[s][i] = c
                   THEN Error ELSE reply[c]]
    /\ queue' = [queue EXCEPT ![s] = <<>>]
    /\ UNCHANGED <<client, found>>

(* sd_bus_open_user(), then sd_bus_add_object_vtable().                    *)
Prepare(s) ==
    /\ \/ server[s] = "open" /\ Goto(s, "vtable")
       \/ server[s] = "vtable" /\ Goto(s, "name")
    /\ UNCHANGED <<owner, queue, client, reply, found, faults>>

(* sd_bus_request_name() without flags: a name that is taken is an error.  *)
RequestName(s) ==
    /\ server[s] = "name" /\ UNCHANGED faults
    /\ \/ owner # NoOwner /\ Finish(s)
       \/ /\ owner = NoOwner /\ owner' = s /\ Goto(s, "process")
          /\ UNCHANGED <<queue, client, reply, found>>

(* Mutants of Multiply: it overflows in fewer bits, or never.              *)
MultiplyNarrow(a, b) == (a * b) % (Half \div 8)
MultiplyUnbounded(a, b) == a * b

(* a * b in 64 bits: on overflow the build's multiplication wraps around.  *)
Multiply(a, b) == ((a * b + Half) % (2 * Half)) - Half

(* Mutants of Process: a call is not answered, or r > 0 is taken for an    *)
(* error.                                                                  *)
ProcessSilently(s) ==
    /\ server[s] = "process" /\ UNCHANGED <<owner, client, reply, found, faults>>
    /\ IF queue[s] = <<>> THEN Goto(s, "wait") /\ UNCHANGED queue
       ELSE queue' = [queue EXCEPT ![s] = Tail(@)] /\ UNCHANGED server

ProcessOnce(s) ==
    /\ server[s] = "process" /\ UNCHANGED <<faults>>
    /\ \/ queue[s] = <<>> /\ Goto(s, "wait") /\ UNCHANGED <<owner, queue, client, reply, found>>
       \/ queue[s] # <<>> /\ Finish(s)

(* The answer to the first call in the queue: the product, or an error if  *)
(* its arguments cannot be read.  A client that has given up gets none.    *)
Answer(s, message) ==
    LET c == Head(queue[s]) IN
    /\ queue[s] # <<>>
    /\ queue' = [queue EXCEPT ![s] = Tail(@)]
    /\ reply' = IF Waiting(c) THEN [reply EXCEPT ![c] = message] ELSE reply
    /\ UNCHANGED server

MethodMultiply(s) ==
    LET c == client[Head(queue[s])] IN
    \/ Answer(s, Result(Multiply(c.a, c.b))) /\ UNCHANGED faults
    \/ Answer(s, Error) /\ CanFail /\ Fault

(* sd_bus_process(): with a message, method_multiply() and on with the     *)
(* loop; without one it waits.                                             *)
Process(s) ==
    /\ server[s] = "process"
    /\ \/ MethodMultiply(s)
       \/ queue[s] = <<>> /\ Goto(s, "wait") /\ UNCHANGED <<queue, reply, faults>>
    /\ UNCHANGED <<owner, client, found>>

(* sd_bus_wait() returns when there is a message, be it still on its way   *)
(* from the bus or read from the connection already: one queue is both.    *)
Wait(s) ==
    /\ server[s] = "wait" /\ queue[s] # <<>> /\ Goto(s, "process")
    /\ UNCHANGED <<owner, queue, client, reply, found, faults>>

(* Any library call of the server fails.                                   *)
ServerFails(s) ==
    /\ server[s] # "exited" /\ CanFail /\ Fault
    /\ Finish(s)

-----------------------------------------------------------------------------
(* sd_bus_client.c. *)

Becomes(c, pc) == client' = [client EXCEPT ![c].pc = pc]

(* sd_bus_open_user().                                                     *)
Open(c) ==
    /\ client[c].pc = "open" /\ Becomes(c, "call")
    /\ UNCHANGED <<server, owner, queue, reply, found, faults>>

(* sd_bus_call_method(): fails at once when nobody owns the name.          *)
Call(c) ==
    /\ client[c].pc = "call"
    /\ IF owner = NoOwner
       THEN Becomes(c, "failed") /\ UNCHANGED <<queue, found>>
       ELSE /\ Becomes(c, "waiting")
            /\ queue' = [queue EXCEPT ![owner] = Append(@, c)]
            /\ found' = found \cup {c}
    /\ UNCHANGED <<server, owner, reply, faults>>

(* It returns: the answer is read and printed, an error reported.          *)
Return(c) ==
    /\ client[c].pc = "waiting" /\ reply[c] # NoReply
    /\ Becomes(c, IF reply[c].kind = "value" THEN "done" ELSE "failed")
    /\ UNCHANGED <<server, owner, queue, reply, found, faults>>

(* A library call of the client fails, or the call times out.              *)
ClientFails(c) ==
    /\ client[c].pc \in {"open", "call", "waiting"} /\ CanFail /\ Fault
    /\ Becomes(c, "failed")
    /\ UNCHANGED <<server, owner, queue, reply, found>>

ServerStep(s) == Prepare(s) \/ RequestName(s) \/ Process(s) \/ Wait(s)
ClientStep(c) == Open(c) \/ Call(c) \/ Return(c)

Next ==
    \/ \E s \in Servers : ServerStep(s) \/ ServerFails(s)
    \/ \E c \in Clients : ClientStep(c) \/ ClientFails(c)

(* Fairness: the processes are scheduled; nothing has to fail.             *)
Spec == Init /\ [][Next]_vars

FairSpec ==
    /\ Spec
    /\ \A s \in Servers : WF_vars(ServerStep(s))
    /\ \A c \in Clients : WF_vars(ClientStep(c))

-----------------------------------------------------------------------------
(* A client that prints a result prints the product of its own arguments,  *)
(* whoever else is calling, if 64 bits can hold it.                        *)
ResultIsTheProduct ==
    \A c \in Clients : LET product == client[c].a * client[c].b IN
        client[c].pc = "done" /\ product \in Ints => reply[c].value = product

(* Without a failure, a call that finds the name owned succeeds: neither   *)
(* a second server that is started nor other calls can make it fail.       *)
FoundMeansServed ==
    faults = 0 => \A c \in found : client[c].pc # "failed"

(* The main loop of the server leaves no call unprocessed, and one that    *)
(* ends fails the calls it had: every client ends.                         *)
EveryClientEnds == \A c \in Clients : <>(client[c].pc \in {"done", "failed"})
=============================================================================
