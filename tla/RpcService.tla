------------------------------ MODULE RpcService ------------------------------
(***************************************************************************)
(* What a remote file service promises its callers, whatever serves them:  *)
(* each call is executed at most once, at one instant between its request  *)
(* and its return, and returns what that execution gave.  A call whose     *)
(* server is gone fails without having been executed.                      *)
(*                                                                         *)
(* Only the set of open descriptors is told apart of the service's state:  *)
(* open() yields a descriptor that is not in use or an error, close()      *)
(* releases one, and every other function leaves the set alone.            *)
(***************************************************************************)
EXTENDS Integers

CONSTANTS
    Calls,        \* names of the calls
    Handles,      \* descriptors the service may give out, positive numbers
    NoRequest     \* the request of a call that has not been made

VARIABLES
    request,      \* per call, the function called and the descriptor it names
    state,        \* per call, how far it is
    value,        \* per call, the result, once it is executed
    files         \* the descriptors in use

vars == <<request, state, value, files>>

Init ==
    /\ request = [c \in Calls |-> NoRequest]
    /\ state = [c \in Calls |-> "idle"]
    /\ value = [c \in Calls |-> 0]
    /\ files = {}

Step(c, from, to) == state[c] = from /\ state' = [state EXCEPT ![c] = to]

(* A caller makes call c.                                                  *)
Call(c) ==
    /\ Step(c, "idle", "called")
    /\ \E r \in [fn : {"OPEN", "CLOSE", "WRITE", "OTHER"}, fd : Handles \cup {0}] :
         request' = [request EXCEPT ![c] = r]
    /\ UNCHANGED <<value, files>>

(* The service executes call c, atomically.                                *)
Open(c) ==
    /\ request[c].fn = "OPEN"
    /\ \/ /\ value' = [value EXCEPT ![c] = -1]
          /\ UNCHANGED files
       \/ \E d \in Handles \ files : /\ value' = [value EXCEPT ![c] = d]
                                     /\ files' = files \cup {d}

Close(c) ==
    /\ request[c].fn = "CLOSE"
    /\ value' = [value EXCEPT ![c] = IF request[c].fd \in files THEN 0 ELSE -1]
    /\ files' = files \ {request[c].fd}

Other(c) ==
    /\ request[c].fn \notin {"OPEN", "CLOSE"}
    /\ value' = [value EXCEPT ![c] = 0]
    /\ UNCHANGED files

Execute(c) ==
    /\ Step(c, "called", "executed")
    /\ Open(c) \/ Close(c) \/ Other(c)
    /\ UNCHANGED request

(* Call c returns the result of its execution, or fails.                   *)
Return(c) == Step(c, "executed", "returned") /\ UNCHANGED <<request, value, files>>
Fail(c)   == Step(c, "called", "failed") /\ UNCHANGED <<request, value, files>>

Next == \E c \in Calls : Call(c) \/ Execute(c) \/ Return(c) \/ Fail(c)

Spec == Init /\ [][Next]_vars
=============================================================================
