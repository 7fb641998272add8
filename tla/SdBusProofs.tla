----------------------------- MODULE SdBusProofs -----------------------------
(***************************************************************************)
(* Proofs about SdBus, for any number of servers and clients, any width of *)
(* the integers and any number of failures.                                *)
(***************************************************************************)
EXTENDS SdBus, TLAPS

(* The modulo of the integers, as far as it is needed here.                *)
LEMMA Modulo ==
  ASSUME NEW n \in Nat \ {0}, NEW x \in Int
  PROVE  /\ x % n \in 0..(n - 1)
         /\ x \in 0..(n - 1) => x % n = x
  OBVIOUS

(* The multiplication stays within the integers, and is exact where they   *)
(* hold the product.                                                       *)
LEMMA Multiplication ==
  ASSUME NEW a \in Ints, NEW b \in Ints
  PROVE  /\ Multiply(a, b) \in Ints
         /\ a * b \in Ints => Multiply(a, b) = a * b
<1>1. Half \in Nat \ {0} /\ 2 * Half \in Nat \ {0}
  BY SdBusAssumption
<1>2. PICK p \in Int : p = a * b
  BY <1>1 DEF Ints
<1>3. /\ (p + Half) % (2 * Half) \in 0..(2 * Half - 1)
      /\ p + Half \in 0..(2 * Half - 1) => (p + Half) % (2 * Half) = p + Half
  <2>1. p + Half \in Int
    BY <1>1
  <2>. QED
    BY <1>1, <2>1, Modulo
<1>4. Multiply(a, b) = ((p + Half) % (2 * Half)) - Half
  BY <1>2 DEF Multiply
<1>5. PICK m \in 0..(2 * Half - 1) : m = (p + Half) % (2 * Half)
  BY <1>3
<1>. QED
  BY <1>1, <1>2, <1>3, <1>4, <1>5 DEF Ints

-----------------------------------------------------------------------------
(* Messages wait at a server in its main loop only, and the owner of the   *)
(* name is one.                                                            *)
QueueInv ==
    /\ \A s \in Servers : server[s] \notin {"process", "wait"} => queue[s] = <<>>
    /\ owner # NoOwner => server[owner] \in {"process", "wait"}

(* A value that answers a call is the product of its arguments, and what a *)
(* client prints is a value.                                               *)
AnswerInv ==
    \A c \in Clients :
        /\ reply[c].kind = "value" => reply[c].value = Multiply(client[c].a, client[c].b)
        /\ reply[c].kind = "none" => reply[c] = NoReply
        /\ client[c].pc = "done" => reply[c].kind = "value"

(* Without a failure no call is answered by an error, and a call that has  *)
(* found the name waits or is done.                                        *)
FaultlessInv ==
    faults = 0 => /\ \A c \in Clients : reply[c].kind # "error"
                  /\ \A c \in found : client[c].pc \in {"waiting", "done"}

(* The inductive invariant.                                                *)
BusInv == TypeOK /\ QueueInv /\ AnswerInv /\ FaultlessInv

-----------------------------------------------------------------------------
LEMMA Replies ==
  /\ NoReply \in [kind : {"none", "error", "value"}, value : Ints] /\ NoReply.kind = "none"
  /\ Error \in [kind : {"none", "error", "value"}, value : Ints] /\ Error.kind = "error"
  /\ \A v \in Ints : /\ Result(v) \in [kind : {"none", "error", "value"}, value : Ints]
                     /\ Result(v).kind = "value" /\ Result(v).value = v
  BY SdBusAssumption DEF NoReply, Error, Result, Ints

LEMMA InitBus == Init => BusInv
<1>. SUFFICES ASSUME Init PROVE BusInv
  OBVIOUS
<1>1. \A c \in Clients : reply[c] = NoReply /\ client[c].pc = "open"
  BY DEF Init
<1>2. TypeOK
  BY Replies, SdBusAssumption DEF Init, TypeOK
<1>3. QueueInv /\ AnswerInv /\ FaultlessInv
  BY <1>1, Replies DEF Init, QueueInv, AnswerInv, FaultlessInv
<1>. QED
  BY <1>2, <1>3 DEF BusInv

(* A server that ends.  In the main loop that takes a failure; before it   *)
(* no call waits for the server, and none is answered by an error.         *)
LEMMA FinishBus ==
  ASSUME BusInv, NEW s \in Servers, Finish(s), faults' \in 0..MaxFaults,
         \/ faults' # 0
         \/ faults' = faults /\ server[s] = "name" /\ owner # s
  PROVE  BusInv'
<1>. USE DEF BusInv, TypeOK, Finish, Goto
<1>1. /\ server' \in [Servers -> {"open", "vtable", "name", "process", "wait", "exited"}]
      /\ queue' \in [Servers -> Seq(Clients)]
      /\ \A r \in Servers \ {s} : server'[r] = server[r] /\ queue'[r] = queue[r]
      /\ server'[s] = "exited" /\ queue'[s] = <<>>
  OBVIOUS
<1>2. /\ \A c \in Clients : reply'[c] \in {reply[c], Error}
      /\ \A c \in Clients : queue[s] = <<>> => reply'[c] = reply[c]
  OBVIOUS
<1>3. reply' \in [Clients -> [kind : {"none", "error", "value"}, value : Ints]]
  BY Replies
<1>4. TypeOK'
  BY <1>1, <1>3
<1>5. QueueInv'
  BY <1>1, SdBusAssumption DEF QueueInv
<1>6. AnswerInv'
  <2>. SUFFICES ASSUME NEW c \in Clients
                PROVE  /\ reply'[c].kind = "value"
                            => reply'[c].value = Multiply(client[c].a, client[c].b)
                       /\ reply'[c].kind = "none" => reply'[c] = NoReply
                       /\ client[c].pc = "done" => reply'[c].kind = "value"
    BY DEF AnswerInv
  <2>1. reply'[c] = reply[c] \/ (reply'[c] = Error /\ reply[c] = NoReply)
    BY DEF Waiting
  <2>. QED
    BY <2>1, Replies DEF AnswerInv
<1>7. FaultlessInv'
  BY <1>2 DEF FaultlessInv, QueueInv
<1>. QED
  BY <1>4, <1>5, <1>6, <1>7

(* The server's side.                                                      *)
LEMMA ServerBus ==
  ASSUME BusInv, NEW s \in Servers, ServerStep(s) \/ ServerFails(s)
  PROVE  BusInv'
<1>. USE DEF BusInv, TypeOK, Goto
<1>0. MaxFaults \in Nat
  BY SdBusAssumption
<1>1. CASE Prepare(s)
  <2>1. server[s] \in {"open", "vtable"} /\ server'[s] \in {"vtable", "name"}
    BY <1>1 DEF Prepare
  <2>2. \A r \in Servers \ {s} : server'[r] = server[r]
    BY <1>1 DEF Prepare
  <2>3. TypeOK'
    BY <1>1 DEF Prepare
  <2>4. QueueInv'
    BY <1>1, <2>1, <2>2 DEF Prepare, QueueInv
  <2>5. AnswerInv' /\ FaultlessInv'
    BY <1>1 DEF Prepare, AnswerInv, FaultlessInv
  <2>. QED
    BY <2>3, <2>4, <2>5
<1>2. CASE RequestName(s)
  <2>1. CASE Finish(s)
    <3>1. owner # s
      BY <1>2, SdBusAssumption DEF RequestName, QueueInv
    <3>. QED
      BY <1>2, <2>1, <3>1, FinishBus DEF RequestName
  <2>2. CASE owner = NoOwner /\ owner' = s /\ Goto(s, "process") /\ UNCHANGED <<queue, client, reply, found>>
    <3>1. TypeOK'
      BY <1>2, <2>2 DEF RequestName
    <3>2. QueueInv'
      BY <2>2 DEF QueueInv
    <3>3. AnswerInv' /\ FaultlessInv'
      BY <1>2, <2>2 DEF RequestName, AnswerInv, FaultlessInv
    <3>. QED
      BY <3>1, <3>2, <3>3
  <2>. QED
    BY <1>2, <2>1, <2>2 DEF RequestName
<1>3. CASE Process(s)
  <2>1. CASE queue[s] = <<>>
    <3>1. /\ server' = [server EXCEPT ![s] = "wait"]
          /\ UNCHANGED <<owner, queue, client, reply, found, faults>>
      BY <1>3, <2>1 DEF Process, MethodMultiply, Answer
    <3>2. TypeOK' /\ QueueInv' /\ AnswerInv' /\ FaultlessInv'
      BY <3>1 DEF QueueInv, AnswerInv, FaultlessInv
    <3>. QED
      BY <3>2
  <2>2. CASE queue[s] # <<>>
    (* The answer: c is the caller, m what it is sent.                     *)
    <3>1. PICK c \in Clients : c = Head(queue[s])
      BY <2>2
    <3>2. PICK m \in {Result(Multiply(client[c].a, client[c].b)), Error} :
            /\ Answer(s, m)
            /\ \/ m # Error /\ faults' = faults
               \/ faults' = faults + 1 /\ faults < MaxFaults
      <4>1. Result(Multiply(client[c].a, client[c].b)) # Error
        BY DEF Result, Error
      <4>. QED
        BY <1>3, <2>2, <3>1, <4>1 DEF Process, MethodMultiply, CanFail, Fault
    <3>3. /\ client[c].a \in Ints /\ client[c].b \in Ints
          /\ Multiply(client[c].a, client[c].b) \in Ints
      BY SdBusAssumption, Multiplication
    <3>4. /\ m \in [kind : {"none", "error", "value"}, value : Ints]
          /\ m # Error => m.kind = "value"
          /\ m.kind = "value" => m.value = Multiply(client[c].a, client[c].b)
      BY <3>3, Replies
    <3>5. /\ reply' \in [Clients -> [kind : {"none", "error", "value"}, value : Ints]]
          /\ \A d \in Clients : \/ reply'[d] = reply[d]
                                \/ d = c /\ reply'[d] = m /\ reply[d] = NoReply
      <4>1. reply' = IF Waiting(c) THEN [reply EXCEPT ![c] = m] ELSE reply
        BY <3>1, <3>2 DEF Answer
      <4>. QED
        BY <3>4, <4>1 DEF Waiting
    <3>6. /\ queue' \in [Servers -> Seq(Clients)]
          /\ \A r \in Servers \ {s} : queue'[r] = queue[r]
      BY <2>2, <3>2 DEF Answer
    <3>7. /\ server[s] = "process" /\ faults' \in 0..MaxFaults
          /\ UNCHANGED <<server, owner, client, found>>
      BY <1>0, <1>3, <3>2 DEF Process, Answer
    <3>8. TypeOK'
      BY <3>5, <3>6, <3>7
    <3>9. QueueInv'
      BY <3>6, <3>7 DEF QueueInv
    <3>10. AnswerInv'
      BY <3>4, <3>5, <3>7, Replies DEF AnswerInv
    <3>11. FaultlessInv'
      BY <1>0, <3>2, <3>4, <3>5, <3>7 DEF FaultlessInv
    <3>. QED
      BY <3>8, <3>9, <3>10, <3>11
  <2>. QED
    BY <2>1, <2>2
<1>4. CASE Wait(s)
  <2>1. TypeOK' /\ QueueInv' /\ AnswerInv' /\ FaultlessInv'
    BY <1>4 DEF Wait, QueueInv, AnswerInv, FaultlessInv
  <2>. QED
    BY <2>1
<1>5. CASE ServerFails(s)
  <2>1. faults' \in 0..MaxFaults /\ faults' # 0
    BY <1>0, <1>5 DEF ServerFails, CanFail, Fault
  <2>. QED
    BY <1>5, <2>1, FinishBus DEF ServerFails
<1>. QED
  BY <1>1, <1>2, <1>3, <1>4, <1>5 DEF ServerStep

(* The client's side.                                                      *)
LEMMA ClientBus ==
  ASSUME BusInv, NEW c \in Clients, ClientStep(c) \/ ClientFails(c)
  PROVE  BusInv'
<1>. USE DEF BusInv, TypeOK, Becomes
<1>0. MaxFaults \in Nat
  BY SdBusAssumption
(* Whatever it does, a client keeps its arguments.                         *)
<1>1. ASSUME NEW pc \in {"open", "call", "waiting", "done", "failed"}, Becomes(c, pc)
      PROVE  /\ client' \in [Clients -> [pc : {"open", "call", "waiting", "done", "failed"},
                                         a : Values, b : Values]]
             /\ \A d \in Clients : client'[d].a = client[d].a /\ client'[d].b = client[d].b
             /\ client'[c].pc = pc
             /\ \A d \in Clients \ {c} : client'[d] = client[d]
  BY <1>1
<1>2. CASE Open(c)
  <2>1. TypeOK' /\ QueueInv' /\ AnswerInv' /\ FaultlessInv'
    BY <1>1, <1>2 DEF Open, QueueInv, AnswerInv, FaultlessInv
  <2>. QED
    BY <2>1
<1>3. CASE Call(c)
  <2>1. CASE owner = NoOwner
    <3>1. c \notin found \/ faults # 0
      BY <1>3 DEF Call, FaultlessInv
    <3>2. TypeOK' /\ QueueInv' /\ AnswerInv' /\ FaultlessInv'
      BY <1>1, <1>3, <2>1, <3>1 DEF Call, QueueInv, AnswerInv, FaultlessInv
    <3>. QED
      BY <3>2
  <2>2. CASE owner # NoOwner
    <3>1. /\ owner \in Servers /\ server[owner] \in {"process", "wait"}
          /\ queue' \in [Servers -> Seq(Clients)]
          /\ \A r \in Servers \ {owner} : queue'[r] = queue[r]
      <4>1. owner \in Servers /\ server[owner] \in {"process", "wait"}
        BY <2>2 DEF QueueInv
      <4>2. Append(queue[owner], c) \in Seq(Clients)
        BY <4>1
      <4>3. queue' = [queue EXCEPT ![owner] = Append(queue[owner], c)]
        BY <1>3, <2>2 DEF Call
      <4>. QED
        BY <4>1, <4>2, <4>3
    <3>2. Becomes(c, "waiting") /\ found' = found \cup {c} /\ client[c].pc = "call"
          /\ UNCHANGED <<server, owner, reply, faults>>
      BY <1>3, <2>2 DEF Call
    <3>3. TypeOK'
      BY <1>1, <3>1, <3>2
    <3>4. QueueInv'
      BY <3>1, <3>2 DEF QueueInv
    <3>5. AnswerInv' /\ FaultlessInv'
      BY <1>1, <3>2 DEF AnswerInv, FaultlessInv
    <3>. QED
      BY <3>3, <3>4, <3>5
  <2>. QED
    BY <2>1, <2>2
<1>4. CASE Return(c)
  <2>1. reply[c].kind = "none" => reply[c] = NoReply
    BY DEF AnswerInv
  <2>2. TypeOK' /\ QueueInv' /\ AnswerInv' /\ FaultlessInv'
    BY <1>1, <1>4, <2>1 DEF Return, QueueInv, AnswerInv, FaultlessInv
  <2>. QED
    BY <2>2
<1>5. CASE ClientFails(c)
  <2>1. faults' \in 0..MaxFaults /\ faults' # 0
    BY <1>0, <1>5 DEF ClientFails, CanFail, Fault
  <2>2. TypeOK' /\ QueueInv' /\ AnswerInv' /\ FaultlessInv'
    BY <1>1, <1>5, <2>1 DEF ClientFails, QueueInv, AnswerInv, FaultlessInv
  <2>. QED
    BY <2>2
<1>. QED
  BY <1>2, <1>3, <1>4, <1>5 DEF ClientStep

LEMMA NextBus == BusInv /\ [Next]_vars => BusInv'
<1>. SUFFICES ASSUME BusInv, [Next]_vars PROVE BusInv'
  OBVIOUS
<1>1. CASE UNCHANGED vars
  BY <1>1 DEF vars, BusInv, TypeOK, QueueInv, AnswerInv, FaultlessInv
<1>. QED
  BY <1>1, ServerBus, ClientBus DEF Next

-----------------------------------------------------------------------------
(* Calls wait at the name's owner alone, and are answered by the product   *)
(* of their own arguments or, after a failure, by an error.                *)
THEOREM Bus == Spec => []BusInv
  BY InitBus, NextBus, PTL DEF Spec

(* The state of the bus and of its processes is well formed: the product   *)
(* stays within 64 bits.                                                   *)
THEOREM TypeCorrect == Spec => []TypeOK
<1>1. BusInv => TypeOK
  BY DEF BusInv
<1>. QED
  BY <1>1, Bus, PTL

(* A client that prints a result prints the product of its own arguments,  *)
(* if the integers can hold it.                                            *)
THEOREM Product == Spec => []ResultIsTheProduct
<1>1. BusInv => ResultIsTheProduct
  <2>. SUFFICES ASSUME BusInv, NEW c \in Clients, client[c].pc = "done",
                       client[c].a * client[c].b \in Ints
                PROVE  reply[c].value = client[c].a * client[c].b
    BY DEF ResultIsTheProduct
  <2>1. client[c].a \in Ints /\ client[c].b \in Ints
    BY SdBusAssumption DEF BusInv, TypeOK
  <2>2. reply[c].value = Multiply(client[c].a, client[c].b)
    BY DEF BusInv, AnswerInv
  <2>. QED
    BY <2>1, <2>2, Multiplication
<1>. QED
  BY <1>1, Bus, PTL

(* Without a failure a call that finds the name owned does not fail: a     *)
(* second server, which finds the name taken, has no calls to drop.        *)
THEOREM Served == Spec => []FoundMeansServed
<1>1. BusInv => FoundMeansServed
  BY DEF BusInv, FaultlessInv, FoundMeansServed
<1>. QED
  BY <1>1, Bus, PTL
=============================================================================
