--------------------------- MODULE RpcServerProofs ---------------------------
(***************************************************************************)
(* TLAPS proofs about RpcServer, for any number of clients, connections,   *)
(* descriptors and faults, and any batch that fits the array thread_id:    *)
(* type correctness, the inductive invariant of the join barrier, and the  *)
(* three safety properties that follow from it.                            *)
(***************************************************************************)
EXTENDS RpcServer, TLAPS

(* Requests that short reads leave behind are well-formed requests.        *)
LEMMA GarbageType == Garbage \subseteq Request
  BY ConstantsAssumption DEF Garbage, Request, Kinds

(* A handler decodes a well-formed request from its payload.               *)
LEMMA DecodedType ==
  ASSUME TypeOK, NEW t \in Conns, Loaded(t)
  PROVE  Decoded(t) \subseteq Request
  <1>1. thread[t].args["payload"] \in Conns
    BY DEF TypeOK, Thread, Loaded, Conns, Fields
  <1>2. payload[thread[t].args["payload"]].request \in Request
    BY <1>1 DEF TypeOK, Block
  <1>. QED  BY <1>2, GarbageType DEF Decoded

(* Executing a request keeps the descriptor table well formed.             *)
LEMMA OutcomesType ==
  ASSUME TypeOK, NEW r \in Request, NEW c \in 0..MaxConns, NEW o \in Outcomes(r, c)
  PROVE  o.table \in [Descriptors -> Entry] /\ o.value \in Int
  <1>1. fdt \in [Descriptors -> Entry] /\ File(c) \in Entry /\ FreeFd \in Entry
    BY ConstantsAssumption DEF TypeOK, File, FreeFd, Entry
  <1>2. CASE r.fn = "OPEN"
    <2>1. o \in Opened(c)
      BY <1>2 DEF Outcomes
    <2>2. \A d \in LowestFd : d \in Int
      BY ConstantsAssumption DEF LowestFd, FreeFds
    <2>. QED  BY <1>1, <2>1, <2>2 DEF Opened
  <1>3. CASE r.fn = "CLOSE"
    <2>1. o \in Closed(r.fd)
      BY <1>3 DEF Outcomes
    <2>. QED  BY <1>1, <2>1 DEF Closed
  <1>4. CASE r.fn \notin {"OPEN", "CLOSE"}
    <2>1. o \in {[table |-> fdt, value |-> 0]}
      BY <1>4 DEF Outcomes
    <2>. QED  BY <1>1, <2>1
  <1>. QED  BY <1>2, <1>3, <1>4

(* Updates of one connection, one thread and one table entry keep them     *)
(* well formed.                                                            *)
LEMMA ChannelUpdate ==
  ASSUME NEW n \in [Conns -> Channel], NEW c, NEW a \in BOOLEAN, NEW b \in BOOLEAN
  PROVE  /\ [n EXCEPT ![c].up = a] \in [Conns -> Channel]
         /\ [n EXCEPT ![c].fin = a] \in [Conns -> Channel]
         /\ [n EXCEPT ![c].up = a, ![c].reset = b] \in [Conns -> Channel]
         /\ \A k \in Clients :
              [n EXCEPT ![c].client = k, ![c].up = a] \in [Conns -> Channel]
         /\ \A s \in Seq(Reply) :
              [n EXCEPT ![c].replies = s, ![c].reset = b] \in [Conns -> Channel]
  BY DEF Channel

LEMMA ThreadUpdate ==
  ASSUME NEW n \in [Conns -> Thread], NEW t
  PROVE  /\ \A pc \in {"start", "shutdown", "close", "cleanup", "done"} :
              [n EXCEPT ![t].pc = pc] \in [Conns -> Thread]
         /\ \A f \in Fields : \A c \in 0..MaxConns :
              [n EXCEPT ![t].args[f] = c] \in [Conns -> Thread]
         /\ \A r \in Reply :
              [n EXCEPT ![t].pc = "send", ![t].reply = r] \in [Conns -> Thread]
  BY DEF Thread

LEMMA EntryUpdate ==
  ASSUME NEW d, NEW n \in [Descriptors -> Entry], NEW e \in Entry
  PROVE  [n EXCEPT ![d] = e] \in [Descriptors -> Entry]
  OBVIOUS

(* Closing sockets keeps the connections well formed.                      *)
LEMMA NetAfterType ==
  ASSUME TypeOK, NEW table
  PROVE  NetAfter(table) \in [Conns -> Channel]
  BY DEF TypeOK, NetAfter, Channel

-----------------------------------------------------------------------------
(* A step that ends the process changes nothing else that has a type.      *)
LEMMA ExitType ==
  ASSUME TypeOK, Exit, faults' \in 0..MaxFaults
  PROVE  TypeOK'
  BY DEF TypeOK, Exit, clientVars

(* Steps of the clients preserve the types.                                *)
LEMMA ClientType ==
  ASSUME TypeOK, NEW k \in Clients, Connect(k) \/ ClientStep(k) \/ Abandon(k)
  PROVE  TypeOK'
  <1>. USE ConstantsAssumption DEF TypeOK, mainVars
  <1>1. CASE Connect(k)
    <2>1. connected + 1 \in 0..MaxConns
      BY <1>1 DEF Connect
    <2>2. net' \in [Conns -> Channel]
      BY <1>1, ChannelUpdate DEF Connect
    <2>. QED  BY <1>1, <2>1, <2>2 DEF Connect
  <1>2. CASE \E r \in Request : Send(k, r)
    <2>1. PICK r \in Request : Send(k, r)
      BY <1>2
    <2>2. net' \in [Conns -> Channel]
      BY <2>1 DEF Send, Channel
    <2>. QED  BY <2>1, <2>2 DEF Send
  <1>3. CASE ReceiveReply(k)
    <2>1. net' \in [Conns -> Channel]
      <3>. DEFINE b == net[call[k]].reset \/ Len(net[call[k]].replies) > 1
      <3>1. b \in BOOLEAN
        OBVIOUS
      <3>2. net' = [net EXCEPT ![call[k]].up = FALSE, ![call[k]].reset = b]
        BY <1>3 DEF ReceiveReply
      <3>. HIDE DEF b
      <3>. QED  BY <3>1, <3>2, ChannelUpdate
    <2>. QED  BY <1>3, <2>1 DEF ReceiveReply
  <1>4. CASE ReceiveNothing(k)
    <2>1. net' \in [Conns -> Channel]
      BY <1>4, ChannelUpdate DEF ReceiveNothing
    <2>. QED  BY <1>4, <2>1 DEF ReceiveNothing
  <1>5. CASE Abandon(k)
    <2>1. net' \in [Conns -> Channel]
      <3>. DEFINE b == net[call[k]].reset \/ net[call[k]].replies # <<>>
      <3>1. b \in BOOLEAN
        OBVIOUS
      <3>2. net' = [net EXCEPT ![call[k]].up = FALSE, ![call[k]].reset = b]
        BY <1>5 DEF Abandon
      <3>. HIDE DEF b
      <3>. QED  BY <3>1, <3>2, ChannelUpdate
    <2>2. call' \in [Clients -> 0..MaxConns] /\ abandons' \in 0..MaxAbandons
      BY <1>5 DEF Abandon
    <2>3. UNCHANGED <<mainVars, connected, thread, payload, fdt, fdOf, handles, faults>>
      BY <1>5 DEF Abandon
    <2>. QED  BY <2>1, <2>2, <2>3
  <1>. QED  BY <1>1, <1>2, <1>3, <1>4, <1>5 DEF ClientStep

(* Steps of main() preserve the types.                                     *)
LEMMA MainType ==
  ASSUME TypeOK, MainStep \/ MainFails \/ Sigint
  PROVE  TypeOK'
  <1>. USE ConstantsAssumption
  <1>1. CASE Accept
    <2>1. accepted + 1 \in 0..MaxConns
      BY <1>1 DEF Accept, TypeOK
    <2>2. PICK d \in LowestFd : /\ fdt' = [fdt EXCEPT ![d] = Socket(accepted + 1)]
                                /\ fdOf' = [fdOf EXCEPT ![accepted + 1] = d]
      BY <1>1 DEF Accept
    <2>3. d \in Descriptors /\ Socket(accepted + 1) \in Entry
      BY <2>1 DEF LowestFd, FreeFds, Socket, Entry
    <2>. QED  BY <1>1, <2>1, <2>2, <2>3 DEF Accept, TypeOK, clientVars
  <1>2. CASE AcceptNoFd
    BY <1>2, ExitType DEF AcceptNoFd, TypeOK
  <1>3. CASE Receive
    <2>1. payload' \in [Conns -> Block]
      <3>1. ASSUME NEW r \in Request,
                   payload' = [payload EXCEPT ![accepted] = [state |-> "live", request |-> r]]
            PROVE  payload' \in [Conns -> Block]
        BY <3>1 DEF TypeOK, Block
      <3>2. CASE accepted \in Conns
        <4>1. net[accepted].request \in Request
          BY <3>2 DEF TypeOK, Channel
        <4>. QED  BY <1>3, <3>1, <4>1, GarbageType DEF Receive
      <3>3. CASE accepted \notin Conns
        BY <1>3, <3>3 DEF Receive, TypeOK
      <3>. QED  BY <3>2, <3>3
    <2>2. faults' \in 0..MaxFaults
      BY <1>3 DEF Receive, TypeOK, CanFail, Fault
    <2>. QED  BY <1>3, <2>1, <2>2 DEF Receive, TypeOK, clientVars
  <1>4. CASE \E f \in Fields : Store(f)
    BY <1>4 DEF Store, TypeOK, clientVars
  <1>5. CASE CreateThread
    <2>1. thread' \in [Conns -> Thread]
      BY <1>5, ThreadUpdate DEF CreateThread, TypeOK
    <2>2. thread_id' \in [0..Slots-1 -> 0..MaxConns]
      BY <1>5 DEF CreateThread, TypeOK
    <2>3. thread_index' \in 0..BatchSize-1 /\ main' \in {"join", "accept"}
      BY <1>5 DEF CreateThread, TypeOK
    <2>. QED  BY <1>5, <2>1, <2>2, <2>3 DEF CreateThread, TypeOK, clientVars
  <1>6. CASE Join
    BY <1>6 DEF Join, TypeOK, clientVars
  <1>7. CASE MainFails
    BY <1>7, ExitType DEF MainFails, TypeOK, CanFail, Fault
  <1>8. CASE Sigint
    BY <1>8, ExitType DEF Sigint, TypeOK, CanFail, Fault
  <1>. QED  BY <1>1, <1>2, <1>3, <1>4, <1>5, <1>6, <1>7, <1>8 DEF MainStep

(* Steps of a client_handler thread preserve the types.                    *)
LEMMA HandlerType ==
  ASSUME TypeOK, NEW t \in Conns, HandlerStep(t)
  PROVE  TypeOK'
  <1>. USE ConstantsAssumption DEF mainVars, clientVars
  <1>0. /\ thread[t].args["payload"] \in 0..MaxConns
        /\ \A pc \in {"cleanup", "shutdown", "close", "done"} :
              Goto(t, pc) => thread' \in [Conns -> Thread]
    <2>1. thread[t].args["payload"] \in 0..MaxConns
      BY DEF TypeOK, Thread, Fields
    <2>2. thread \in [Conns -> Thread]
      BY DEF TypeOK
    <2>3. \A pc \in {"start", "shutdown", "close", "cleanup", "done"} :
            [thread EXCEPT ![t].pc = pc] \in [Conns -> Thread]
      BY <2>2, ThreadUpdate
    <2>. QED  BY <2>1, <2>3 DEF Goto
  <1>1. CASE \E f \in Fields : Load(t, f)
    <2>1. thread' \in [Conns -> Thread]
      <3>1. thread \in [Conns -> Thread] /\ \A f \in Fields : argument[f] \in 0..MaxConns
        BY DEF TypeOK
      <3>2. PICK f \in Fields : thread' = [thread EXCEPT ![t].args[f] = argument[f]]
        BY <1>1 DEF Load
      <3>. QED  BY <3>1, <3>2, ThreadUpdate
    <2>. QED  BY <1>1, <2>1 DEF Load, TypeOK
  <1>2. CASE Execute(t)
    <2>. DEFINE p == thread[t].args["payload"]
    <2>1. PICK r \in Decoded(t) : \E o \in Outcomes(r, p) :
                 /\ fdt' = o.table
                 /\ net' = NetAfter(o.table)
                 /\ thread' = [thread EXCEPT ![t].pc = "send",
                                             ![t].reply = [of |-> p, value |-> o.value]]
      BY <1>2 DEF Execute
    <2>2. r \in Request
      BY <1>2, <2>1, DecodedType DEF Execute
    <2>3. PICK o \in Outcomes(r, p) :
                 /\ fdt' = o.table
                 /\ net' = NetAfter(o.table)
                 /\ thread' = [thread EXCEPT ![t].pc = "send",
                                             ![t].reply = [of |-> p, value |-> o.value]]
      BY <2>1
    <2>4. o.table \in [Descriptors -> Entry] /\ o.value \in Int
      BY <1>0, <2>2, OutcomesType
    <2>5. [of |-> p, value |-> o.value] \in Reply
      BY <1>0, <2>4 DEF Reply
    <2>6. thread' \in [Conns -> Thread]
      BY <2>3, <2>5, ThreadUpdate DEF TypeOK
    <2>7. net' \in [Conns -> Channel]
      BY <2>3, NetAfterType
    <2>. QED  BY <1>2, <2>3, <2>4, <2>6, <2>7 DEF Execute, TypeOK
  <1>3. CASE ExecuteFails(t)
    <2>. DEFINE p == thread[t].args["payload"]
    <2>1. fdt' \in [Descriptors -> Entry] /\ net' \in [Conns -> Channel]
      <3>1. CASE UNCHANGED <<fdt, net>>
        BY <3>1 DEF TypeOK
      <3>2. CASE \E r \in Decoded(t) : \E o \in Outcomes(r, p) :
                    fdt' = o.table /\ net' = NetAfter(o.table)
        <4>1. PICK r \in Decoded(t) : \E o \in Outcomes(r, p) :
                    fdt' = o.table /\ net' = NetAfter(o.table)
          BY <3>2
        <4>2. r \in Request
          BY <1>3, <4>1, DecodedType DEF ExecuteFails
        <4>. QED  BY <1>0, <4>1, <4>2, OutcomesType, NetAfterType
      <3>. QED  BY <1>3, <3>1, <3>2 DEF ExecuteFails
    <2>2. faults' \in 0..MaxFaults
      BY <1>3 DEF ExecuteFails, TypeOK, CanFail, Fault
    <2>. QED  BY <1>0, <1>3, <2>1, <2>2 DEF ExecuteFails, TypeOK
  <1>4. CASE WildWriteAborts(t) \/ SendKills(t) \/ DoubleFreeAborts(t)
    BY <1>4, ExitType DEF WildWriteAborts, SendKills, DoubleFreeAborts, TypeOK
  <1>5. CASE SendReply(t)
    <2>1. net' \in [Conns -> Channel]
      <3>. DEFINE c == Peer(t).id
                  s == Append(net[c].replies, thread[t].reply)
                  b == net[c].reset \/ ~net[c].up
      <3>1. CASE UNCHANGED net
        BY <3>1 DEF TypeOK
      <3>2. CASE net' = [net EXCEPT ![c].replies = s, ![c].reset = b] /\ c \in Conns
        <4>1. thread[t].reply \in Reply
          BY DEF TypeOK, Thread
        <4>2. net[c].replies \in Seq(Reply)
          BY <3>2 DEF TypeOK, Channel
        <4>3. s \in Seq(Reply) /\ b \in BOOLEAN
          BY <4>1, <4>2
        <4>4. net' = [net EXCEPT ![c].replies = s, ![c].reset = b]
          BY <3>2
        <4>5. net \in [Conns -> Channel]
          BY DEF TypeOK
        <4>. HIDE DEF s, b, c
        <4>. QED  BY <4>3, <4>4, <4>5, ChannelUpdate
      <3>3. CASE net' = [net EXCEPT ![c].replies = s, ![c].reset = b] /\ c \notin Conns
        BY <3>3 DEF TypeOK
      <3>. QED  BY <1>5, <3>1, <3>2, <3>3 DEF SendReply
    <2>2. thread' \in [Conns -> Thread]
      BY <1>0, <1>5 DEF SendReply
    <2>3. faults' \in 0..MaxFaults
      BY <1>5 DEF SendReply, TypeOK, CanFail, Fault
    <2>. QED  BY <1>5, <2>1, <2>2, <2>3 DEF SendReply, TypeOK
  <1>6. CASE Shutdown(t)
    <2>1. net' \in [Conns -> Channel]
      <3>1. net \in [Conns -> Channel]
        BY DEF TypeOK
      <3>2. \/ net' = [net EXCEPT ![Peer(t).id].fin = TRUE]
            \/ net' = net
        BY <1>6 DEF Shutdown
      <3>3. \A c : [net EXCEPT ![c].fin = TRUE] \in [Conns -> Channel]
        BY <3>1, ChannelUpdate
      <3>. QED  BY <3>1, <3>2, <3>3
    <2>. QED  BY <1>0, <1>6, <2>1 DEF Shutdown, TypeOK
  <1>7. CASE CloseSocket(t)
    <2>1. fdt' \in [Descriptors -> Entry]
      <3>1. FreeFd \in Entry
        BY DEF FreeFd, Entry
      <3>. QED  BY <1>7, <3>1, EntryUpdate DEF CloseSocket, TypeOK
    <2>2. net' \in [Conns -> Channel]
      BY <1>7, NetAfterType DEF CloseSocket
    <2>. QED  BY <1>0, <1>7, <2>1, <2>2 DEF CloseSocket, TypeOK
  <1>8. CASE Cleanup(t)
    <2>1. payload' \in [Conns -> Block]
      BY <1>8 DEF Cleanup, TypeOK, Block
    <2>. QED  BY <1>0, <1>8, <2>1 DEF Cleanup, TypeOK
  <1>. QED  BY <1>1, <1>2, <1>3, <1>4, <1>5, <1>6, <1>7, <1>8 DEF HandlerStep

(***************************************************************************)
(* Type correctness of the server: in particular thread_index, the index   *)
(* main() uses in thread_id, stays below BatchSize, whatever the           *)
(* clients do and whichever library calls fail.                            *)
(***************************************************************************)
THEOREM TypeCorrect == Spec => []TypeOK
  <1>1. Init => TypeOK
    BY ConstantsAssumption
    DEF Init, TypeOK, Entry, Block, Thread, Channel, FreeFd, NoRequest, NoReply,
        Request, Reply
  <1>2. TypeOK /\ [Next]_vars => TypeOK'
    <2>1. TypeOK /\ UNCHANGED vars => TypeOK'
      BY DEF TypeOK, vars
    <2>. QED  BY <2>1, ClientType, MainType, HandlerType DEF Next
  <1>. QED  BY <1>1, <1>2, PTL DEF Spec

-----------------------------------------------------------------------------
(* What the steps of clients and handlers do to the state main() batches   *)
(* its threads by.                                                         *)
LEMMA ClientFrame ==
  ASSUME NEW k \in Clients, Connect(k) \/ ClientStep(k) \/ Abandon(k)
  PROVE  UNCHANGED <<mainVars, thread>>
  BY DEF ClientStep, Connect, Send, ReceiveReply, ReceiveNothing, Abandon, mainVars

(* A handler that moves on without ending the process was live, stays      *)
(* created, touches no other thread, and changes its arguments only by     *)
(* copying a field of argument that it had not copied yet.                 *)
LEMMA HandlerFrame ==
  ASSUME TypeOK, NEW t \in Conns, HandlerStep(t), Running'
  PROVE  /\ UNCHANGED mainVars
         /\ Live(t)
         /\ \A u \in Conns \ {t} : thread'[u] = thread[u]
         /\ thread'[t].pc # "none"
         /\ \A f \in Fields : \/ thread'[t].args[f] = thread[t].args[f]
                              \/ thread'[t].args[f] = argument[f]
  <1>1. ~Exit
    BY DEF Exit, Running
  <1>2. thread \in [Conns -> Thread]
    BY DEF TypeOK
  <1>3. ASSUME NEW pc \in {"shutdown", "close", "cleanup", "done"}, Goto(t, pc)
        PROVE  /\ \A u \in Conns \ {t} : thread'[u] = thread[u]
               /\ thread'[t].pc # "none"
               /\ thread'[t].args = thread[t].args
    BY <1>2, <1>3 DEF Goto, Thread
  <1>4. CASE \E f \in Fields : Load(t, f)
    <2>1. PICK f \in Fields : Load(t, f)
      BY <1>4
    <2>2. /\ \A u \in Conns \ {t} : thread'[u] = thread[u]
          /\ thread'[t].pc = thread[t].pc
          /\ thread'[t].args = [thread[t].args EXCEPT ![f] = argument[f]]
      BY <1>2, <2>1 DEF Load, Thread
    <2>3. thread[t].args \in [Fields -> 0..MaxConns]
      BY <1>2 DEF Thread
    <2>. QED  BY <2>1, <2>2, <2>3 DEF Load, At, Live
  <1>5. CASE Execute(t)
    <2>1. PICK r : thread' = [thread EXCEPT ![t].pc = "send", ![t].reply = r]
      BY <1>5 DEF Execute
    <2>2. /\ \A u \in Conns \ {t} : thread'[u] = thread[u]
          /\ thread'[t].pc = "send"
          /\ thread'[t].args = thread[t].args
      BY <1>2, <2>1 DEF Thread
    <2>. QED  BY <1>5, <2>2 DEF Execute, Loaded, At, Live
  <1>6. CASE ExecuteFails(t)
    BY <1>3, <1>6 DEF ExecuteFails, Loaded, At, Live
  <1>7. CASE SendReply(t)
    BY <1>3, <1>7 DEF SendReply, At, Live
  <1>8. CASE Shutdown(t)
    BY <1>3, <1>8 DEF Shutdown, At, Live
  <1>9. CASE CloseSocket(t)
    BY <1>3, <1>9 DEF CloseSocket, At, Live
  <1>10. CASE Cleanup(t)
    BY <1>3, <1>10 DEF Cleanup, At, Live
  <1>11. CASE WildWriteAborts(t) \/ SendKills(t) \/ DoubleFreeAborts(t)
    BY <1>1, <1>11 DEF WildWriteAborts, SendKills, DoubleFreeAborts
  <1>. QED  BY <1>4, <1>5, <1>6, <1>7, <1>8, <1>9, <1>10, <1>11 DEF HandlerStep

(* BatchInv is preserved when no variable it mentions changes.             *)
LEMMA BatchStutter ==
  ASSUME BatchInv, UNCHANGED <<mainVars, thread>>
  PROVE  BatchInv'
  BY DEF BatchInv, mainVars, Running, BatchBase, Created, InBatch, Live

(* BatchInv is preserved by a handler: it can only copy a field of         *)
(* argument, which is then not older than the handler's own connection.    *)
LEMMA BatchHandler ==
  ASSUME TypeOK, BatchInv, NEW t \in Conns, HandlerStep(t)
  PROVE  BatchInv'
  <1>. SUFFICES ASSUME Running'
                PROVE  BatchInv'
    BY DEF BatchInv
  <1>1. /\ UNCHANGED mainVars
        /\ Live(t)
        /\ \A u \in Conns \ {t} : thread'[u] = thread[u]
        /\ thread'[t].pc # "none"
        /\ \A f \in Fields : \/ thread'[t].args[f] = thread[t].args[f]
                              \/ thread'[t].args[f] = argument[f]
    BY HandlerFrame
  <1>2. UNCHANGED <<main, thread_index, thread_id, argument, accepted,
                    Running, Created, InBatch, BatchBase>>
    BY <1>1 DEF mainVars, Running, Created, InBatch, BatchBase
  <1>3. Running
    BY <1>2
  <1>4. t <= Created /\ Created \in 0..accepted /\ accepted \in Nat /\ t \in Nat
    BY <1>1, <1>3 DEF BatchInv, Live, TypeOK, Conns
  <1>5. \A f \in Fields : argument[f] \in t..accepted
    BY <1>3, <1>4 DEF BatchInv
  <1>6. \A f \in Fields : thread'[t].args[f] # 0 => thread'[t].args[f] \in t..accepted
    BY <1>1, <1>3, <1>5 DEF BatchInv
  <1>7. ~(t <= BatchBase) /\ ~(main = "join" /\ t <= BatchBase + thread_index)
    BY <1>1, <1>3 DEF BatchInv
  <1>8. ASSUME NEW u \in Conns
        PROVE  /\ thread'[u].pc # "none" <=> u <= Created
               /\ u <= BatchBase => ~Live(u)'
               /\ main = "join" /\ u <= BatchBase + thread_index => ~Live(u)'
               /\ \A f \in Fields : thread'[u].args[f] # 0 =>
                     thread'[u].pc # "none" /\ thread'[u].args[f] \in u..accepted
    <2>1. CASE u = t
      BY <1>1, <1>4, <1>6, <1>7, <2>1
    <2>2. CASE u # t
      BY <1>1, <1>3, <2>2 DEF BatchInv, Live
    <2>. QED  BY <2>1, <2>2
  <1>. QED  BY <1>2, <1>3, <1>8 DEF BatchInv

(* BatchInv is preserved by main(): accept() starts connection             *)
(* Created + 1, the stores make argument that connection's, pthread_create *)
(* puts its thread in the next slot, and each pthread_join retires the     *)
(* oldest thread of the batch.                                             *)
LEMMA BatchMain ==
  ASSUME TypeOK, BatchInv, MainStep \/ MainFails \/ Sigint
  PROVE  BatchInv'
  <1>. SUFFICES ASSUME Running'
                PROVE  BatchInv'
    BY DEF BatchInv
  <1>. USE ConstantsAssumption
  <1>0. ~Exit
    BY DEF Exit, Running
  <1>1. /\ accepted \in 0..MaxConns /\ connected \in 0..MaxConns
        /\ thread_index \in 0..BatchSize-1
        /\ thread_id \in [0..Slots-1 -> 0..MaxConns]
        /\ argument \in [Fields -> 0..MaxConns]
        /\ Conns \subseteq Nat
    BY DEF TypeOK, Conns
  <1>2. CASE Accept
    <2>1. /\ main = "accept" /\ main' = "recv" /\ accepted' = accepted + 1
          /\ UNCHANGED <<thread_index, thread_id, argument, thread>>
      BY <1>2 DEF Accept
    <2>2. Running /\ Created' = Created /\ Created = accepted /\ BatchBase' = BatchBase
          /\ InBatch' = InBatch
      BY <1>1, <2>1 DEF Running, Created, BatchBase, InBatch
    <2>. QED  BY <1>1, <2>1, <2>2 DEF BatchInv, Live
  <1>3. CASE Receive
    <2>1. /\ main = "recv" /\ main' = "store"
          /\ UNCHANGED <<thread_index, thread_id, argument, thread, accepted>>
      BY <1>3 DEF Receive
    <2>2. Running /\ Created' = Created /\ BatchBase' = BatchBase /\ InBatch' = InBatch
      BY <2>1 DEF Running, Created, BatchBase, InBatch
    <2>. QED  BY <2>1, <2>2 DEF BatchInv, Live
  <1>4. CASE \E f \in Fields : Store(f)
    <2>1. PICK f \in Fields : Store(f)
      BY <1>4
    <2>2. /\ main = "store" /\ main' \in {"store", "create"}
          /\ argument' = [argument EXCEPT ![f] = accepted]
          /\ main' = "create" => \A g \in Fields \ {f} : argument[g] = accepted
          /\ UNCHANGED <<thread_index, thread_id, thread, accepted>>
      BY <2>1 DEF Store
    <2>3. Running /\ Created' = Created /\ BatchBase' = BatchBase /\ InBatch' = InBatch
      BY <2>2 DEF Running, Created, BatchBase, InBatch
    <2>. QED  BY <1>1, <2>2, <2>3 DEF BatchInv, Live
  <1>5. CASE CreateThread
    <2>1. /\ main = "create"
          /\ thread_id' = [thread_id EXCEPT ![thread_index] = accepted]
          /\ thread' = [thread EXCEPT ![accepted].pc = "start"]
          /\ UNCHANGED <<argument, accepted>>
      BY <1>5 DEF CreateThread
    <2>2. Running /\ Created = accepted - 1 /\ InBatch = thread_index
      BY <2>1 DEF Running, Created, InBatch
    <2>3. /\ thread_index < BatchSize
          /\ InBatch' = thread_index + 1
          /\ Created' = accepted
          /\ thread_index' \in 0..BatchSize-1
          /\ main' \in {"join", "accept"}
          /\ main' = "join" => thread_index' = 0
      BY <1>1, <1>5, <2>2 DEF BatchInv, CreateThread, InBatch, Created
    <2>4. BatchBase' = BatchBase /\ BatchBase = accepted - 1 - thread_index
      BY <1>1, <2>2, <2>3 DEF BatchBase
    <2>5. accepted \in Conns
      BY <1>1, <2>2 DEF BatchInv, Conns
    <2>6. /\ \A u \in Conns \ {accepted} : thread'[u] = thread[u]
          /\ thread'[accepted].pc = "start"
          /\ thread'[accepted].args = thread[accepted].args
      BY <2>1, <2>5 DEF TypeOK, Thread
    <2>7. ASSUME NEW i \in 0..InBatch'-1
          PROVE  thread_id'[i] = BatchBase + i + 1
      <3>1. i \in 0..thread_index /\ i \in 0..Slots-1
        BY <1>1, <2>3
      <3>2. CASE i = thread_index
        BY <1>1, <2>1, <2>4, <3>1, <3>2
      <3>3. CASE i # thread_index
        <4>1. i \in 0..InBatch-1
          BY <1>1, <2>2, <3>1, <3>3
        <4>2. thread_id[i] = BatchBase + i + 1
          BY <2>2, <4>1 DEF BatchInv
        <4>. QED  BY <1>1, <2>1, <3>1, <3>3, <4>2
      <3>. QED  BY <3>2, <3>3
    <2>8. ASSUME NEW u \in Conns
          PROVE  /\ thread'[u].pc # "none" <=> u <= Created'
                 /\ u <= BatchBase => ~Live(u)'
                 /\ \A f \in Fields : thread'[u].args[f] # 0 =>
                       thread'[u].pc # "none" /\ thread'[u].args[f] \in u..accepted
      <3>1. CASE u = accepted
        BY <1>1, <2>1, <2>2, <2>3, <2>4, <2>6, <3>1 DEF BatchInv
      <3>2. CASE u # accepted
        BY <1>1, <2>1, <2>2, <2>3, <2>4, <2>6, <3>2 DEF BatchInv, Live
      <3>. QED  BY <3>1, <3>2
    <2>9. 0 <= BatchBase' /\ Created' \in 0..accepted' /\ thread_index' < BatchSize
      BY <1>1, <2>1, <2>2, <2>3, <2>4 DEF BatchInv
    <2>10. \A f \in Fields : argument'[f] = accepted /\ Created' = accepted'
      BY <2>1, <2>2, <2>3 DEF BatchInv
    <2>11. \A u \in Conns : main' = "join" /\ u <= BatchBase + thread_index' => ~Live(u)'
      BY <1>1, <2>3, <2>4, <2>8
    <2>. QED  BY <2>1, <2>3, <2>4, <2>7, <2>8, <2>9, <2>10, <2>11 DEF BatchInv
  <1>6. CASE Join
    <2>1. /\ main = "join"
          /\ thread[thread_id[thread_index]].pc = "done"
          /\ UNCHANGED <<thread_id, argument, accepted, thread>>
      BY <1>6 DEF Join
    <2>2. Running /\ Created = accepted /\ InBatch = BatchSize
      BY <2>1 DEF Running, Created, InBatch
    <2>3. BatchBase = accepted - BatchSize
      BY <2>2 DEF BatchBase
    <2>4. thread_index < BatchSize /\ thread_id[thread_index] = BatchBase + thread_index + 1
      BY <1>1, <2>2 DEF BatchInv
    <2>5. \A u \in Conns : u <= BatchBase + thread_index + 1 => ~Live(u)
      BY <1>1, <2>1, <2>2, <2>3, <2>4 DEF BatchInv, Live
    <2>6. CASE thread_index + 1 < BatchSize
      <3>1. main' = "join" /\ thread_index' = thread_index + 1
        BY <1>6, <2>6 DEF Join
      <3>2. Created' = Created /\ InBatch' = InBatch /\ BatchBase' = BatchBase
        BY <2>1, <3>1 DEF Created, InBatch, BatchBase
      <3>. QED  BY <1>1, <2>1, <2>2, <2>3, <2>5, <2>6, <3>1, <3>2 DEF BatchInv, Live
    <2>7. CASE ~(thread_index + 1 < BatchSize)
      <3>1. main' = "accept" /\ thread_index' = 0
        BY <1>6, <2>7 DEF Join
      <3>2. Created' = accepted /\ InBatch' = 0 /\ BatchBase' = accepted
        BY <1>1, <2>1, <3>1 DEF Created, InBatch, BatchBase
      <3>3. \A u \in Conns : u <= accepted => ~Live(u)
        BY <1>1, <2>3, <2>4, <2>5, <2>7
      <3>4. 0 <= BatchBase' /\ Created' \in 0..accepted' /\ thread_index' < BatchSize
        BY <1>1, <2>1, <3>1, <3>2
      <3>5. \A f \in Fields : argument'[f] = accepted /\ Created' = accepted'
        BY <2>1, <2>2, <3>2 DEF BatchInv
      <3>6. 0..InBatch'-1 = {}
        BY <3>2
      <3>7. \A u \in Conns : /\ thread'[u].pc # "none" <=> u <= Created'
                             /\ u <= BatchBase' => ~Live(u)'
                             /\ \A f \in Fields : thread'[u].args[f] # 0 =>
                                   thread'[u].pc # "none" /\ thread'[u].args[f] \in u..accepted'
        BY <2>1, <2>2, <3>2, <3>3 DEF BatchInv, Live
      <3>. QED  BY <2>1, <3>1, <3>4, <3>5, <3>6, <3>7 DEF BatchInv
    <2>. QED  BY <2>6, <2>7
  <1>7. CASE AcceptNoFd \/ MainFails \/ Sigint
    BY <1>0, <1>7 DEF AcceptNoFd, MainFails, Sigint
  <1>. QED  BY <1>2, <1>3, <1>4, <1>5, <1>6, <1>7 DEF MainStep

(***************************************************************************)
(* The inductive invariant of the batches holds in every reachable state.  *)
(***************************************************************************)
THEOREM Batches == Spec => []BatchInv
  <1>1. Init => BatchInv
    BY ConstantsAssumption DEF Init, BatchInv, Running, BatchBase, Created, InBatch, Live, Conns
  <1>2. TypeOK /\ BatchInv /\ [Next]_vars => BatchInv'
    <2>1. BatchInv /\ UNCHANGED vars => BatchInv'
      BY BatchStutter DEF vars, mainVars
    <2>. QED  BY <2>1, ClientFrame, BatchStutter, BatchMain, BatchHandler DEF Next
  <1>. QED  BY <1>1, <1>2, TypeCorrect, PTL DEF Spec

(***************************************************************************)
(* The race on argument is confined to a batch, for every batch size.      *)
(***************************************************************************)
THEOREM RaceConfined == Spec => []RaceConfinedToBatch
  <1>1. TypeOK /\ BatchInv => RaceConfinedToBatch
    <2>. SUFFICES ASSUME TypeOK, BatchInv, Running, NEW t \in Conns, Live(t)
                  PROVE  /\ BatchBase < t
                         /\ t <= BatchBase + BatchSize
                         /\ \A f \in Fields : thread[t].args[f] # 0 =>
                               thread[t].args[f] \in t..accepted
      BY DEF RaceConfinedToBatch
    <2>1. /\ BatchBase \in Int /\ t \in Nat /\ Created \in Nat
          /\ InBatch <= BatchSize /\ InBatch \in Nat
      BY ConstantsAssumption DEF TypeOK, BatchBase, Created, InBatch, Conns, BatchInv
    <2>2. Created = BatchBase + InBatch
      BY <2>1 DEF BatchBase
    <2>3. t <= Created /\ ~(t <= BatchBase)
      BY DEF BatchInv, Live
    <2>4. \A f \in Fields : thread[t].args[f] # 0 => thread[t].args[f] \in t..accepted
      BY DEF BatchInv
    <2>. QED  BY <2>1, <2>2, <2>3, <2>4, ConstantsAssumption
  <1>. QED  BY <1>1, TypeCorrect, Batches, PTL

(***************************************************************************)
(* The thread that completes a batch serves its own connection.            *)
(***************************************************************************)
THEOREM LastServed == Spec => []LastOfBatchServesItself
  <1>1. TypeOK /\ BatchInv => LastOfBatchServesItself
    <2>. SUFFICES ASSUME TypeOK, BatchInv, main = "join", NEW f \in Fields
                  PROVE  argument[f] = accepted /\ thread[accepted].args[f] \in {0, accepted}
      BY DEF LastOfBatchServesItself
    <2>1. Running /\ Created = accepted /\ InBatch = BatchSize
      BY DEF Running, Created, InBatch
    <2>2. accepted \in Conns
      BY <2>1, ConstantsAssumption DEF BatchInv, BatchBase, TypeOK, Conns
    <2>3. argument[f] = accepted
      BY <2>1 DEF BatchInv
    <2>4. thread[accepted].args[f] # 0 => thread[accepted].args[f] \in accepted..accepted
      BY <2>1, <2>2 DEF BatchInv
    <2>. QED  BY <2>2, <2>3, <2>4 DEF Conns
  <1>. QED  BY <1>1, TypeCorrect, Batches, PTL

(***************************************************************************)
(* Every live thread sits in a slot main() has still to join, inside the   *)
(* array: no thread is lost and no slot beyond Slots is used.              *)
(***************************************************************************)
THEOREM NoThreadLost == Spec => []EveryLiveThreadWillBeJoined
  <1>1. TypeOK /\ BatchInv => EveryLiveThreadWillBeJoined
    <2>. SUFFICES ASSUME TypeOK, BatchInv, Running, NEW t \in Conns, Live(t)
                  PROVE  \E i \in 0..Slots-1 : /\ thread_id[i] = t
                                               /\ i < BatchSize
                                               /\ main = "join" => thread_index <= i
                                               /\ main # "join" => i < thread_index
      BY DEF EveryLiveThreadWillBeJoined
    <2>. DEFINE i == t - BatchBase - 1
    <2>1. /\ BatchBase \in Int /\ t \in Nat /\ Created \in Nat /\ thread_index \in Nat
          /\ InBatch <= BatchSize /\ InBatch \in Nat
      BY ConstantsAssumption DEF TypeOK, BatchBase, Created, InBatch, Conns, BatchInv
    <2>2. Created = BatchBase + InBatch
      BY <2>1 DEF BatchBase
    <2>3. t <= Created /\ ~(t <= BatchBase) /\ ~(main = "join" /\ t <= BatchBase + thread_index)
      BY DEF BatchInv, Live
    <2>4. i \in 0..InBatch-1
      BY <2>1, <2>2, <2>3
    <2>5. thread_id[i] = t
      BY <2>1, <2>4 DEF BatchInv
    <2>6. main = "join" => thread_index <= i
      BY <2>1, <2>3
    <2>7. main # "join" => i < thread_index
      BY <2>1, <2>4 DEF InBatch
    <2>. QED  BY <2>1, <2>4, <2>5, <2>6, <2>7, ConstantsAssumption
  <1>. QED  BY <1>1, TypeCorrect, Batches, PTL

=============================================================================
