------------------------- MODULE RpcServerCallProofs -------------------------
(***************************************************************************)
(* TLAPS proofs about RpcServer when calls do not overlap: one client, no  *)
(* failing library call and no abandoned call, and any number of           *)
(* connections, descriptors and threads per batch.  CallInv is inductive   *)
(* together with TypeOK and BatchInv, and gives the five safety properties *)
(* of such calls and the refinement of RpcService.                         *)
(***************************************************************************)
EXTENDS RpcServerProofs, RpcServerImplements

(***************************************************************************)
(* The inductive invariant behind the five: with one client and no fault,  *)
(* only the newest connection has a call in progress, and every earlier    *)
(* thread has sent its reply.  In four parts, for connection c and the     *)
(* thread created for it.                                                  *)
(***************************************************************************)
Executed(c) == thread[c].pc \notin {"none", "start"}
Replied(c)  == thread[c].pc \in {"shutdown", "close", "cleanup", "done"}
Received(c) == /\ payload[c] = [state |-> "live", request |-> net[c].request]
               /\ net[c].request # NoRequest

(* A thread runs on the arguments and the payload of its own connection.   *)
ArgsInv ==
    /\ main \in {"store", "create"} => Received(accepted)
    /\ \A c \in Conns : /\ net[c].request # NoRequest =>
                              /\ net[c].request.fn \in Functions
                              /\ net[c].request.fn = "CLOSE" =>
                                    net[c].request.fd \in Descriptors
                        /\ \A f \in Fields : thread[c].args[f] \in {0, c}
                        /\ Live(c) => Received(c)
                        /\ thread[c].pc # "none" => net[c].request # NoRequest
                        /\ Executed(c) => /\ \A f \in Fields : thread[c].args[f] = c
                                          /\ thread[c].reply.of = c

(* The one reply is on the connection from send() on, and the client is    *)
(* there until it is; a process that has exited left no reply unsent.      *)
ReplyInv ==
    /\ accepted <= connected
    /\ \A k \in Clients : call[k] \in {0, connected}
    /\ \A c \in Conns :
        /\ net[c].replies = IF Replied(c) THEN <<thread[c].reply>> ELSE <<>>
        /\ ~net[c].reset
        /\ net[c].fin => thread[c].pc \in {"close", "cleanup", "done"}
        /\ c <= connected => net[c].client \in Clients
        /\ c > connected => net[c].request = NoRequest /\ thread[c].pc = "none"
        /\ ~Running => thread[c].pc # "send"
        /\ \A k \in Clients : /\ net[c].up <=> call[k] = c
                              /\ Running /\ c <= connected => Replied(c) \/ call[k] = c

(* The number accept() returned is the connection's socket until close().  *)
SocketInv ==
    Running => \A c \in Conns :
        c <= accepted /\ thread[c].pc \notin {"cleanup", "done"} =>
            fdOf[c] \in Descriptors /\ fdt[fdOf[c]] = Socket(c)

(* A file is the one its OPEN returned; the client holds it, is about to   *)
(* be told of it, or has asked to close it.                                *)
OpenedBy(c, d) == /\ c \in Conns /\ Executed(c)
                  /\ net[c].request.fn = "OPEN" /\ thread[c].reply.value = d
FileInv ==
    Running => \A k \in Clients : \A d \in Descriptors :
        /\ fdt[d].kind = "file" =>
              /\ OpenedBy(fdt[d].id, d)
              /\ d \in handles[k] \/ call[k] = fdt[d].id \/ Closing(k, d)
        /\ d \in handles[k] => fdt[d].kind = "file"
        /\ Closing(k, d) => /\ d \notin handles[k]
                            /\ fdt[d].kind = "file" <=> ~Executed(call[k])
        /\ OpenedBy(call[k], d) => fdt[d] = File(call[k])

CallInv == ArgsInv /\ ReplyInv /\ SocketInv /\ FileInv

-----------------------------------------------------------------------------
(* Connections are numbered from 1.                                        *)
LEMMA ConnNumbers == \A c \in Conns : c \in Nat /\ c # 0 /\ c \in 0..MaxConns
  BY ConstantsAssumption DEF Conns

(* The call in progress is on the newest connection.                       *)
LEMMA CallIsNewest ==
  ASSUME NEW k, Clients = {k}, TypeOK, ReplyInv, call[k] # 0
  PROVE  call[k] = connected /\ call[k] \in Conns
  BY ConstantsAssumption DEF ReplyInv, TypeOK, Conns

(* A thread that has been created and has not sent its reply is that of    *)
(* the call in progress, main() has nothing newer, and `argument' is its.  *)
LEMMA NewestThread ==
  ASSUME NEW k, Clients = {k}, TypeOK, BatchInv, ReplyInv, Running,
         NEW t \in Conns, thread[t].pc # "none", ~Replied(t)
  PROVE  /\ call[k] = t /\ connected = t /\ accepted = t
         /\ main \in {"accept", "join"}
         /\ \A f \in Fields : argument[f] = t
  <1>1. t <= Created /\ Created \in 0..accepted /\ t \in Nat /\ t # 0
    BY DEF BatchInv, Conns
  <1>2. accepted \in Nat /\ connected \in Nat /\ accepted <= connected
    BY DEF TypeOK, ReplyInv
  <1>3. t <= connected
    BY <1>1, <1>2
  <1>4. call[k] = t /\ call[k] \in {0, connected}
    BY <1>3 DEF ReplyInv
  <1>5. connected = t /\ accepted = t /\ Created = t
    BY <1>1, <1>2, <1>4
  <1>6. main \in {"accept", "join"}
    BY <1>5, <1>1 DEF Created, Running, TypeOK
  <1>. QED  BY <1>4, <1>5, <1>6 DEF BatchInv

(* While main() is between accept() and pthread_create(), the call in      *)
(* progress is the one it has accepted.                                    *)
LEMMA NewestAccepted ==
  ASSUME NEW k, Clients = {k}, TypeOK, BatchInv, ReplyInv,
         main \in {"recv", "store", "create"}
  PROVE  /\ accepted \in Conns /\ connected = accepted /\ call[k] = accepted
         /\ thread[accepted].pc = "none"
  <1>1. Running /\ Created = accepted - 1
    BY DEF Running, Created
  <1>2. accepted \in Conns
    BY <1>1 DEF BatchInv, TypeOK, Conns
  <1>3. thread[accepted].pc = "none"
    BY <1>1, <1>2 DEF BatchInv, Conns
  <1>4. call[k] = accepted
    BY <1>1, <1>2, <1>3 DEF ReplyInv, Replied
  <1>5. connected = accepted
    BY <1>2, <1>4 DEF ReplyInv, Conns
  <1>. QED  BY <1>2, <1>3, <1>4, <1>5

-----------------------------------------------------------------------------
(* connect(): the client has no call in progress, so every thread has      *)
(* replied and every file is held.                                         *)
LEMMA ConnectCall ==
  ASSUME NEW k, Clients = {k}, TypeOK, BatchInv, CallInv, Connect(k)
  PROVE  CallInv'
  <1>. DEFINE n == connected + 1
  <1>1. /\ Running /\ Running' /\ call[k] = 0 /\ call'[k] = n /\ connected' = n
        /\ UNCHANGED <<main, accepted, thread, payload, fdt, fdOf, handles>>
    BY DEF Connect, TypeOK, mainVars, Running
  <1>0. /\ n \in Conns /\ connected \in Nat /\ Conns \subseteq Nat
        /\ \A c \in Conns : /\ c <= n <=> c <= connected \/ c = n
                            /\ c > n => c > connected
                            /\ c # 0
        /\ n > connected
    BY ConstantsAssumption DEF Connect, TypeOK, Conns
  <1>2. /\ net \in [Conns -> Channel]
        /\ net' = [net EXCEPT ![n].client = k, ![n].up = TRUE]
    BY DEF Connect, TypeOK
  <1>. HIDE DEF n
  <1>3. \A c \in Conns : /\ net'[c].request = net[c].request
                         /\ net'[c].replies = net[c].replies
                         /\ net'[c].fin <=> net[c].fin
                         /\ net'[c].reset <=> net[c].reset
                         /\ net'[c].client = IF c = n THEN k ELSE net[c].client
                         /\ net'[c].up <=> c = n \/ net[c].up
    BY <1>0, <1>2 DEF Channel
  <1>4. ArgsInv'
    <2>1. main \notin {"store", "create"}
      BY <1>1, NewestAccepted DEF CallInv, Conns
    <2>. QED  BY <1>1, <1>3, <2>1 DEF CallInv, ArgsInv, Received, Live, Executed
  <1>5. ReplyInv'
    <2>1. accepted' <= connected' /\ call'[k] \in {0, connected'}
      BY <1>0, <1>1, ConstantsAssumption DEF CallInv, ReplyInv, TypeOK, n
    <2>2. ASSUME NEW c \in Conns
          PROVE  /\ net'[c].replies = IF Replied(c)' THEN <<thread'[c].reply>> ELSE <<>>
                 /\ ~net'[c].reset
                 /\ net'[c].fin => thread'[c].pc \in {"close", "cleanup", "done"}
      BY <1>1, <1>3 DEF CallInv, ReplyInv, Replied
    <2>3. ASSUME NEW c \in Conns
          PROVE  /\ c <= connected' => net'[c].client \in Clients
                 /\ c > connected' => net'[c].request = NoRequest /\ thread'[c].pc = "none"
                 /\ ~Running' => thread'[c].pc # "send"
                 /\ net'[c].up <=> call'[k] = c
                 /\ Running' /\ c <= connected' => Replied(c)' \/ call'[k] = c
      BY <1>0, <1>1, <1>3 DEF CallInv, ReplyInv, Replied
    <2>. QED  BY <2>1, <2>2, <2>3 DEF ReplyInv
  <1>6. SocketInv'
    BY <1>1 DEF CallInv, SocketInv, Running
  <1>7. FileInv'
    <2>1. net'[n].request = NoRequest
      BY <1>0, <1>1, <1>3 DEF CallInv, ReplyInv
    <2>2. \A c, d : OpenedBy(c, d)' <=> OpenedBy(c, d)
      BY <1>1, <1>3 DEF OpenedBy, Executed
    <2>3. \A d : ~Closing(k, d) /\ ~Closing(k, d)' /\ ~OpenedBy(call[k], d)'
      <3>1. NoRequest.fn = "NONE" /\ \A d : [fn |-> "CLOSE", fd |-> d].fn = "CLOSE"
        BY DEF NoRequest
      <3>. QED  BY <1>1, <2>1, <3>1 DEF Closing, OpenedBy
    <2>4. \A d \in Descriptors : fdt[d].kind = "file" => d \in handles[k]
      BY <1>0, <1>1, <2>3 DEF CallInv, FileInv, OpenedBy
    <2>. QED  BY <1>1, <2>2, <2>3, <2>4 DEF CallInv, FileInv
  <1>. QED  BY <1>4, <1>5, <1>6, <1>7 DEF CallInv

(* send(): the request is the client's first on this connection, so main() *)
(* still waits for it; a CLOSE moves its descriptor from the client's      *)
(* hands to the connection.                                                *)
LEMMA SendCall ==
  ASSUME NEW k, Clients = {k}, TypeOK, BatchInv, CallInv,
         NEW r \in Request, Send(k, r)
  PROVE  CallInv'
  <1>. DEFINE n == call[k]
  <1>1. /\ n # 0 /\ n \in Conns /\ n = connected /\ net[n].request = NoRequest
        /\ UNCHANGED <<main, accepted, connected, thread, payload, fdt, fdOf, call>>
        /\ Running' = Running
    BY CallIsNewest DEF Send, CallInv, mainVars, Running
  <1>2. /\ r.fn \in Functions /\ r # NoRequest
        /\ r.fn = "CLOSE" => r.fd \in handles[k] /\ r.fd \in Descriptors
        /\ r.fn # "CLOSE" => r.fd \notin Descriptors
        /\ handles'[k] = handles[k] \ {r.fd}
    <2>1. /\ r.fn \in Functions /\ handles'[k] = handles[k] \ {r.fd}
          /\ r.fd \in IF r.fn = "CLOSE" THEN handles[k] ELSE {NoFd}
      BY DEF Send, TypeOK
    <2>2. handles[k] \subseteq Descriptors /\ NoFd \notin Descriptors /\ "NONE" \notin Functions
      BY ConstantsAssumption DEF TypeOK, NoFd, Kinds
    <2>3. r # NoRequest
      BY <2>1, <2>2 DEF NoRequest
    <2>. QED  BY <2>1, <2>2, <2>3
  <1>3. /\ net \in [Conns -> Channel]
        /\ net' = [net EXCEPT ![n].request = r]
    BY DEF Send, TypeOK
  <1>. HIDE DEF n
  <1>4. \A c \in Conns : /\ net'[c].request = IF c = n THEN r ELSE net[c].request
                         /\ net'[c].replies = net[c].replies
                         /\ net'[c].fin <=> net[c].fin
                         /\ net'[c].reset <=> net[c].reset
                         /\ net'[c].client = net[c].client
                         /\ net'[c].up <=> net[c].up
    BY <1>1, <1>3 DEF Channel
  <1>5. thread[n].pc = "none" /\ main \notin {"store", "create"}
    <2>1. thread[n].pc = "none"
      BY <1>1 DEF CallInv, ArgsInv
    <2>2. main \in {"store", "create"} => n = accepted
      BY NewestAccepted DEF CallInv, n
    <2>. QED  BY <1>1, <2>1, <2>2 DEF CallInv, ArgsInv, Received
  <1>6. ArgsInv'
    <2>1. ASSUME NEW c \in Conns
          PROVE  /\ net'[c].request # NoRequest =>
                      /\ net'[c].request.fn \in Functions
                      /\ net'[c].request.fn = "CLOSE" => net'[c].request.fd \in Descriptors
                 /\ Live(c)' => Received(c)'
                 /\ thread'[c].pc # "none" => net'[c].request # NoRequest
      BY <1>1, <1>2, <1>4, <1>5 DEF CallInv, ArgsInv, Received, Live
    <2>. QED  BY <1>1, <1>5, <2>1 DEF CallInv, ArgsInv, Executed
  <1>7. ReplyInv'
    BY <1>1, <1>4, ConnNumbers DEF CallInv, ReplyInv, Replied
  <1>8. SocketInv'
    BY <1>1 DEF CallInv, SocketInv
  <1>9. FileInv'
    <2>1. \A c, d : OpenedBy(c, d)' <=> OpenedBy(c, d)
      BY <1>1, <1>4, <1>5 DEF OpenedBy, Executed
    <2>2. \A d : /\ ~Closing(k, d) /\ ~OpenedBy(n, d) /\ ~Executed(n)'
                 /\ Closing(k, d)' <=> r = [fn |-> "CLOSE", fd |-> d]
      BY <1>1, <1>4, <1>5 DEF Closing, OpenedBy, Executed, NoRequest, n
    <2>3. \A d \in Descriptors : r = [fn |-> "CLOSE", fd |-> d] <=> r.fd = d
      BY <1>2 DEF Request
    <2>4. \A d \in Descriptors : Closing(k, d)' => d \in handles[k] /\ d \notin handles'[k]
      BY <1>2, <2>2, <2>3
    <2>5. \A d \in Descriptors : d \in handles[k] => d \in handles'[k] \/ Closing(k, d)'
      BY <1>2, <2>2, <2>3
    <2>6. \A d \in Descriptors : d \in handles'[k] => d \in handles[k]
      BY <1>2
    <2>. QED  BY <1>1, <2>1, <2>2, <2>4, <2>5, <2>6 DEF CallInv, FileInv, n
  <1>. QED  BY <1>6, <1>7, <1>8, <1>9 DEF CallInv

(* recv() of the one reply: the call ends, and an OPEN leaves the client   *)
(* holding the file it opened.                                             *)
LEMMA ReceiveReplyCall ==
  ASSUME NEW k, Clients = {k}, TypeOK, BatchInv, CallInv, ReceiveReply(k)
  PROVE  CallInv'
  <1>. DEFINE n == call[k]
              v == thread[n].reply.value
  <1>1. /\ n \in Conns /\ n = connected /\ call'[k] = 0 /\ net[n].replies # <<>>
        /\ UNCHANGED <<main, accepted, connected, thread, payload, fdt, fdOf>>
        /\ Running' = Running
    BY CallIsNewest DEF ReceiveReply, CallInv, mainVars, Running, TypeOK
  <1>2. Replied(n) /\ net[n].replies = <<thread[n].reply>>
    BY <1>1 DEF CallInv, ReplyInv
  <1>3. Len(net[n].replies) = 1 /\ Head(net[n].replies) = thread[n].reply
    BY <1>2
  <1>4. handles'[k] = IF net[n].request.fn = "OPEN"
                      THEN handles[k] \cup ({v} \cap Descriptors) ELSE handles[k]
    BY <1>3 DEF ReceiveReply, TypeOK
  <1>5. /\ net \in [Conns -> Channel]
        /\ net' = [net EXCEPT ![n].up = FALSE,
                              ![n].reset = net[n].reset \/ Len(net[n].replies) > 1]
    BY DEF ReceiveReply, TypeOK
  <1>. HIDE DEF n, v
  <1>6. \A c \in Conns : /\ net'[c].request = net[c].request
                         /\ net'[c].replies = net[c].replies
                         /\ net'[c].fin <=> net[c].fin
                         /\ net'[c].reset <=> net[c].reset
                         /\ net'[c].client = net[c].client
                         /\ net'[c].up <=> c # n /\ net[c].up
    BY <1>1, <1>3, <1>5 DEF Channel
  <1>7. ArgsInv'
    <2>1. main \notin {"store", "create"}
      BY <1>2, NewestAccepted DEF CallInv, Replied, n
    <2>. QED  BY <1>1, <1>6, <2>1 DEF CallInv, ArgsInv, Received, Live, Executed
  <1>8. ReplyInv'
    BY <1>1, <1>2, <1>6, ConnNumbers DEF CallInv, ReplyInv, Replied, n
  <1>9. SocketInv'
    BY <1>1 DEF CallInv, SocketInv
  <1>10. FileInv'
    <2>1. \A c, d : OpenedBy(c, d)' <=> OpenedBy(c, d)
      BY <1>1, <1>6 DEF OpenedBy, Executed
    <2>2. \A d : ~Closing(k, d)' /\ ~OpenedBy(call[k], d)'
      BY <1>1, ConnNumbers DEF Closing, OpenedBy
    <2>3. Executed(n)
      BY <1>2 DEF Executed, Replied
    <2>4. ASSUME Running, NEW d \in Descriptors, fdt[d].kind = "file"
          PROVE  OpenedBy(fdt[d].id, d) /\ d \in handles'[k]
      <3>1. OpenedBy(fdt[d].id, d) /\ (d \in handles[k] \/ n = fdt[d].id)
        BY <2>3, <2>4 DEF CallInv, FileInv, n
      <3>2. n = fdt[d].id => net[n].request.fn = "OPEN" /\ v = d
        BY <3>1 DEF OpenedBy, v
      <3>. QED  BY <1>4, <3>1, <3>2
    <2>5. ASSUME Running, NEW d \in Descriptors, d \in handles'[k]
          PROVE  fdt[d].kind = "file"
      <3>1. CASE d \in handles[k]
        BY <2>5, <3>1 DEF CallInv, FileInv
      <3>2. CASE net[n].request.fn = "OPEN" /\ d = v
        <4>1. OpenedBy(call[k], d)
          BY <1>1, <2>3, <3>2 DEF OpenedBy, n, v
        <4>2. fdt[d] = File(call[k])
          BY <2>5, <4>1 DEF CallInv, FileInv
        <4>. QED  BY <4>2 DEF File
      <3>. QED  BY <1>4, <2>5, <3>1, <3>2
    <2>. QED  BY <1>1, <2>1, <2>2, <2>4, <2>5 DEF FileInv
  <1>. QED  BY <1>7, <1>8, <1>9, <1>10 DEF CallInv

(* A call ends without a reply only when the process is gone.              *)
LEMMA ReceiveNothingCall ==
  ASSUME NEW k, Clients = {k}, TypeOK, CallInv, ReceiveNothing(k)
  PROVE  CallInv' /\ ~Running
  <1>. DEFINE n == call[k]
  <1>1. /\ n \in Conns /\ n = connected /\ call'[k] = 0 /\ net[n].replies = <<>>
        /\ net[n].fin \/ ~Running
        /\ UNCHANGED <<main, accepted, connected, thread, payload>>
        /\ Running' = Running
    BY CallIsNewest DEF ReceiveNothing, CallInv, mainVars, Running, TypeOK
  <1>2. ~Replied(n)
    <2>1. Replied(n) => net[n].replies = <<thread[n].reply>>
      BY <1>1 DEF CallInv, ReplyInv
    <2>. QED  BY <1>1, <2>1
  <1>3. ~Running
    BY <1>1, <1>2 DEF CallInv, ReplyInv, Replied
  <1>4. /\ net \in [Conns -> Channel]
        /\ net' = [net EXCEPT ![n].up = FALSE]
    BY DEF ReceiveNothing, TypeOK
  <1>. HIDE DEF n
  <1>6. \A c \in Conns : /\ net'[c].request = net[c].request
                         /\ net'[c].replies = net[c].replies
                         /\ net'[c].fin <=> net[c].fin
                         /\ net'[c].reset <=> net[c].reset
                         /\ net'[c].client = net[c].client
                         /\ net'[c].up <=> c # n /\ net[c].up
    BY <1>1, <1>4 DEF Channel
  <1>7. ArgsInv'
    BY <1>1, <1>3, <1>6 DEF CallInv, ArgsInv, Received, Live, Executed, Running
  <1>8. ReplyInv'
    BY <1>1, <1>3, <1>6, ConnNumbers DEF CallInv, ReplyInv, Replied, n
  <1>. QED  BY <1>1, <1>3, <1>7, <1>8 DEF CallInv, SocketInv, FileInv

-----------------------------------------------------------------------------
(* FileInv is preserved by a step that opens and closes no file.           *)
LEMMA FileFrame ==
  ASSUME NEW k, Clients = {k}, TypeOK, FileInv, Running, UNCHANGED <<handles, call>>,
         \A c \in Conns : /\ net'[c].request = net[c].request
                          /\ thread'[c].reply = thread[c].reply
                          /\ Executed(c)' <=> Executed(c),
         \A d \in Descriptors :
            fdt[d].kind = "file" \/ fdt'[d].kind = "file" => fdt'[d] = fdt[d]
  PROVE  FileInv'
  <1>1. \A c, d : OpenedBy(c, d)' <=> OpenedBy(c, d)
    BY DEF OpenedBy, Executed
  <1>2. call[k] = 0 \/ call[k] \in Conns
    BY ConstantsAssumption DEF TypeOK, Conns
  <1>3. \A d : Closing(k, d)' <=> Closing(k, d)
    BY <1>2 DEF Closing
  <1>4. \A d \in Descriptors : Closing(k, d) => (Executed(call[k])' <=> Executed(call[k]))
    <2>1. call[k] \in Conns => (Executed(call[k])' <=> Executed(call[k]))
      BY DEF Executed
    <2>. QED  BY <1>2, <2>1 DEF Closing
  <1>5. \A d \in Descriptors : OpenedBy(call[k], d)' <=> OpenedBy(call[k], d)
    BY <1>1 DEF OpenedBy, Executed
  <1>6. \A d \in Descriptors : fdt[d].kind = "file" <=> fdt'[d].kind = "file"
    OBVIOUS
  <1>7. \A c : File(c).kind = "file" /\ File(c)' = File(c)
    BY DEF File
  <1>8. ASSUME NEW d \in Descriptors
        PROVE  /\ fdt'[d].kind = "file" =>
                      /\ OpenedBy(fdt[d].id, d)'
                      /\ d \in handles'[k] \/ call'[k] = fdt'[d].id \/ Closing(k, d)'
               /\ d \in handles'[k] => fdt'[d].kind = "file"
               /\ Closing(k, d)' => /\ d \notin handles'[k]
                                    /\ fdt'[d].kind = "file" <=> ~Executed(call[k])'
               /\ OpenedBy(call[k], d)' => fdt'[d] = File(call'[k])
    <2>1. /\ fdt[d].kind = "file" =>
                /\ OpenedBy(fdt[d].id, d)
                /\ d \in handles[k] \/ call[k] = fdt[d].id \/ Closing(k, d)
          /\ d \in handles[k] => fdt[d].kind = "file"
          /\ Closing(k, d) => /\ d \notin handles[k]
                              /\ fdt[d].kind = "file" <=> ~Executed(call[k])
          /\ OpenedBy(call[k], d) => fdt[d] = File(call[k])
      BY DEF FileInv
    <2>2. fdt'[d].kind = "file" => OpenedBy(fdt[d].id, d)'
      BY <1>1, <2>1 DEF OpenedBy, Executed
    <2>3. OpenedBy(call[k], d)' => fdt'[d] = File(call'[k])
      BY <1>5, <1>7, <2>1
    <2>. QED  BY <1>3, <1>4, <1>6, <2>1, <2>2, <2>3
  <1>. QED  BY <1>8 DEF FileInv

(* The invariant is preserved when the process ends with no reply unsent.  *)
LEMMA ExitCall ==
  ASSUME CallInv, Exit, \A c \in Conns : thread[c].pc # "send"
  PROVE  CallInv'
  <1>1. /\ ~Running'
        /\ UNCHANGED <<thread, payload, net, accepted, connected, call>>
        /\ main' \notin {"store", "create"}
    BY DEF Exit, Running, clientVars
  <1>2. ArgsInv'
    BY <1>1 DEF CallInv, ArgsInv, Received, Live, Executed
  <1>3. ReplyInv'
    BY <1>1 DEF CallInv, ReplyInv, Replied
  <1>. QED  BY <1>1, <1>2, <1>3 DEF CallInv, SocketInv, FileInv

(* accept() gives the connection a descriptor that is nobody's.            *)
LEMMA AcceptCall ==
  ASSUME NEW k, Clients = {k}, TypeOK, CallInv, Accept
  PROVE  CallInv'
  <1>. DEFINE n == accepted + 1
  <1>1. /\ main = "accept" /\ main' = "recv" /\ accepted' = n /\ n <= connected
        /\ UNCHANGED <<thread, payload, net, connected, call, handles>>
        /\ Running /\ Running'
    BY DEF Accept, clientVars, Running, TypeOK
  <1>2. n \in Conns /\ \A c \in Conns : c <= n <=> c <= accepted \/ c = n
    BY <1>1, ConstantsAssumption DEF TypeOK, Conns
  <1>3. PICK d \in LowestFd : /\ fdt' = [fdt EXCEPT ![d] = Socket(n)]
                              /\ fdOf' = [fdOf EXCEPT ![n] = d]
    BY DEF Accept
  <1>4. d \in Descriptors /\ fdt[d] = FreeFd
    BY DEF LowestFd, FreeFds
  <1>. HIDE DEF n
  <1>5. /\ fdOf'[n] = d /\ fdt'[d] = Socket(n)
        /\ \A c \in Conns \ {n} : fdOf'[c] = fdOf[c]
        /\ \A e \in Descriptors \ {d} : fdt'[e] = fdt[e]
    BY <1>2, <1>3, <1>4 DEF TypeOK
  <1>6. ArgsInv'
    BY <1>1 DEF CallInv, ArgsInv, Received, Live, Executed
  <1>7. ReplyInv'
    BY <1>1 DEF CallInv, ReplyInv, Replied
  <1>8. SocketInv'
    <2>1. \A c : Socket(c) # FreeFd
      BY DEF Socket, FreeFd
    <2>. QED  BY <1>1, <1>2, <1>4, <1>5, <2>1 DEF CallInv, SocketInv, Socket
  <1>9. FileInv'
    <2>1. FreeFd.kind # "file" /\ Socket(n).kind # "file"
      BY DEF FreeFd, Socket
    <2>2. \A e \in Descriptors :
            fdt[e].kind = "file" \/ fdt'[e].kind = "file" => fdt'[e] = fdt[e]
      BY <1>4, <1>5, <2>1
    <2>. QED  BY <1>1, <2>2, FileFrame DEF CallInv, Executed
  <1>. QED  BY <1>6, <1>7, <1>8, <1>9 DEF CallInv

(* With no descriptor left main() exits, and nothing is unsent then: the   *)
(* call in progress is the one it could not accept.                        *)
LEMMA AcceptNoFdCall ==
  ASSUME NEW k, Clients = {k}, TypeOK, BatchInv, CallInv, AcceptNoFd
  PROVE  CallInv'
  <1>1. main = "accept" /\ accepted < connected /\ Exit /\ Running
    BY DEF AcceptNoFd, Running
  <1>2. ASSUME NEW c \in Conns, thread[c].pc = "send"
        PROVE  FALSE
    <2>1. accepted = c /\ connected = c
      BY <1>1, <1>2, NewestThread DEF CallInv, Replied
    <2>. QED  BY <1>1, <2>1 DEF TypeOK
  <1>. QED  BY <1>1, <1>2, ExitCall

(* main() gets the whole request: the client is there until it is answered. *)
LEMMA ReceiveCall ==
  ASSUME NEW k, Clients = {k}, MaxFaults = 0, TypeOK, BatchInv, CallInv, Receive
  PROVE  CallInv'
  <1>1. /\ main = "recv" /\ main' = "store"
        /\ UNCHANGED <<accepted, connected, thread, fdt, fdOf, net, call, handles>>
        /\ Running /\ Running'
    BY DEF Receive, Running, clientVars
  <1>2. accepted \in Conns /\ call[k] = accepted /\ thread[accepted].pc = "none"
    BY <1>1, NewestAccepted DEF CallInv
  <1>3. net[accepted].up /\ ~CanFail
    <2>1. ~CanFail
      BY DEF CanFail, TypeOK
    <2>. QED  BY <1>2, <2>1 DEF CallInv, ReplyInv
  <1>4. /\ net[accepted].request # NoRequest
        /\ payload' = [payload EXCEPT ![accepted] =
                          [state |-> "live", request |-> net[accepted].request]]
    BY <1>3 DEF Receive
  <1>5. /\ payload'[accepted] = [state |-> "live", request |-> net[accepted].request]
        /\ \A c \in Conns \ {accepted} : payload'[c] = payload[c]
    BY <1>2, <1>4 DEF TypeOK
  <1>6. ArgsInv'
    <2>1. Received(accepted)'
      BY <1>1, <1>4, <1>5 DEF Received
    <2>. QED  BY <1>1, <1>2, <1>5, <2>1 DEF CallInv, ArgsInv, Received, Live, Executed
  <1>7. ReplyInv'
    BY <1>1 DEF CallInv, ReplyInv, Replied
  <1>8. SocketInv'
    BY <1>1 DEF CallInv, SocketInv
  <1>9. FileInv'
    BY <1>1, FileFrame DEF CallInv, Executed
  <1>. QED  BY <1>6, <1>7, <1>8, <1>9 DEF CallInv

(* The stores into `argument' change nothing the calls depend on.          *)
LEMMA StoreCall ==
  ASSUME NEW k, Clients = {k}, TypeOK, CallInv, NEW f \in Fields, Store(f)
  PROVE  CallInv'
  <1>1. /\ main = "store" /\ main' \in {"store", "create"}
        /\ UNCHANGED <<accepted, connected, thread, payload, fdt, fdOf, net, call, handles>>
        /\ Running /\ Running'
    BY DEF Store, Running, clientVars
  <1>2. ArgsInv'
    BY <1>1 DEF CallInv, ArgsInv, Received, Live, Executed
  <1>3. ReplyInv'
    BY <1>1 DEF CallInv, ReplyInv, Replied
  <1>4. SocketInv'
    BY <1>1 DEF CallInv, SocketInv
  <1>5. FileInv'
    BY <1>1, FileFrame DEF CallInv, Executed
  <1>. QED  BY <1>2, <1>3, <1>4, <1>5 DEF CallInv

(* pthread_create(): the new thread finds its request in its payload.      *)
LEMMA CreateThreadCall ==
  ASSUME NEW k, Clients = {k}, TypeOK, BatchInv, CallInv, CreateThread
  PROVE  CallInv'
  <1>. DEFINE n == accepted
  <1>1. /\ main = "create" /\ main' \in {"accept", "join"}
        /\ UNCHANGED <<accepted, connected, payload, fdt, fdOf, net, call, handles>>
        /\ Running /\ Running'
    BY DEF CreateThread, Running, clientVars
  <1>2. n \in Conns /\ call[k] = n /\ connected = n /\ thread[n].pc = "none" /\ Received(n)
    BY <1>1, NewestAccepted DEF CallInv, ArgsInv
  <1>3. /\ thread'[n].pc = "start" /\ thread'[n].args = thread[n].args
        /\ thread'[n].reply = thread[n].reply
        /\ \A c \in Conns \ {n} : thread'[c] = thread[c]
    BY <1>2 DEF CreateThread, TypeOK, Thread
  <1>4. \A c \in Conns : /\ Executed(c)' <=> Executed(c)
                         /\ Replied(c)' <=> Replied(c)
                         /\ thread'[c].reply = thread[c].reply
                         /\ thread'[c].args = thread[c].args
    BY <1>2, <1>3 DEF Executed, Replied
  <1>5. ArgsInv'
    BY <1>1, <1>2, <1>3, <1>4 DEF CallInv, ArgsInv, Received, Live
  <1>6. ReplyInv'
    <2>1. ASSUME NEW c \in Conns
          PROVE  /\ net'[c].fin => thread'[c].pc \in {"close", "cleanup", "done"}
                 /\ c > connected' => net'[c].request = NoRequest /\ thread'[c].pc = "none"
      <3>1. CASE c = n
        <4>1. ~net[n].fin
          BY <1>2 DEF CallInv, ReplyInv
        <4>2. ~(n > connected)
          BY <1>2, ConnNumbers
        <4>. QED  BY <1>1, <3>1, <4>1, <4>2
      <3>2. CASE c # n
        BY <1>1, <1>3, <3>2 DEF CallInv, ReplyInv
      <3>. QED  BY <3>1, <3>2
    <2>2. accepted' <= connected' /\ call'[k] \in {0, connected'}
      BY <1>1 DEF CallInv, ReplyInv
    <2>3. ASSUME NEW c \in Conns
          PROVE  /\ net'[c].replies = IF Replied(c)' THEN <<thread'[c].reply>> ELSE <<>>
                 /\ ~net'[c].reset
                 /\ c <= connected' => net'[c].client \in Clients
                 /\ net'[c].up <=> call'[k] = c
                 /\ c <= connected' => Replied(c)' \/ call'[k] = c
      BY <1>1, <1>4 DEF CallInv, ReplyInv
    <2>. QED  BY <1>1, <2>1, <2>2, <2>3 DEF ReplyInv
  <1>7. SocketInv'
    BY <1>1, <1>2, <1>3 DEF CallInv, SocketInv
  <1>8. FileInv'
    BY <1>1, <1>4, FileFrame DEF CallInv
  <1>. QED  BY <1>5, <1>6, <1>7, <1>8 DEF CallInv

(* pthread_join() changes main() alone.                                    *)
LEMMA JoinCall ==
  ASSUME NEW k, Clients = {k}, TypeOK, CallInv, Join
  PROVE  CallInv'
  <1>1. /\ main = "join" /\ main' \in {"join", "accept"}
        /\ UNCHANGED <<accepted, connected, thread, payload, fdt, fdOf, net, call, handles>>
        /\ Running /\ Running'
    BY DEF Join, Running, clientVars
  <1>2. ArgsInv'
    BY <1>1 DEF CallInv, ArgsInv, Received, Live, Executed
  <1>3. ReplyInv'
    BY <1>1 DEF CallInv, ReplyInv, Replied
  <1>4. SocketInv'
    BY <1>1 DEF CallInv, SocketInv
  <1>5. FileInv'
    BY <1>1, FileFrame DEF CallInv, Executed
  <1>. QED  BY <1>2, <1>3, <1>4, <1>5 DEF CallInv

-----------------------------------------------------------------------------
(* What Goto does to the threads.                                          *)
LEMMA GotoEffect ==
  ASSUME TypeOK, NEW t \in Conns, NEW pc, Goto(t, pc)
  PROVE  /\ thread'[t].pc = pc
         /\ thread'[t].args = thread[t].args
         /\ thread'[t].reply = thread[t].reply
         /\ \A u \in Conns \ {t} : thread'[u] = thread[u]
  BY DEF Goto, TypeOK, Thread

(* A step of a handler affects only its own connection: what it must leave *)
(* there for ReplyInv to be preserved.                                     *)
LEMMA ReplyFrame ==
  ASSUME NEW k, Clients = {k}, ReplyInv, Running', NEW t \in Conns, thread[t].pc # "none",
         UNCHANGED <<accepted, connected, call>>,
         \A c \in Conns : /\ net'[c].request = net[c].request
                          /\ net'[c].client = net[c].client
                          /\ net'[c].reset <=> net[c].reset
                          /\ net'[c].up <=> net[c].up,
         \A c \in Conns \ {t} : /\ thread'[c] = thread[c]
                                /\ net'[c].replies = net[c].replies
                                /\ net'[c].fin <=> net[c].fin,
         net'[t].replies = IF Replied(t)' THEN <<thread'[t].reply>> ELSE <<>>,
         net'[t].fin => thread'[t].pc \in {"close", "cleanup", "done"},
         Replied(t)' \/ call[k] = t, Running
  PROVE  ReplyInv'
  <1>1. accepted' <= connected' /\ call'[k] \in {0, connected'}
    BY DEF ReplyInv
  <1>2. \A c \in Conns : /\ ~net'[c].reset
                         /\ c <= connected' => net'[c].client \in Clients
                         /\ net'[c].up <=> call'[k] = c
    BY DEF ReplyInv
  <1>3. ASSUME NEW c \in Conns \ {t}
        PROVE  /\ net'[c].replies = IF Replied(c)' THEN <<thread'[c].reply>> ELSE <<>>
               /\ net'[c].fin => thread'[c].pc \in {"close", "cleanup", "done"}
               /\ c > connected' => net'[c].request = NoRequest /\ thread'[c].pc = "none"
               /\ c <= connected' => Replied(c)' \/ call'[k] = c
    <2>1. thread'[c] = thread[c] /\ (Replied(c)' <=> Replied(c))
      BY DEF Replied
    <2>. QED  BY <2>1 DEF ReplyInv
  <1>4. ~(t > connected')
    BY DEF ReplyInv
  <1>. QED  BY <1>1, <1>2, <1>3, <1>4 DEF ReplyInv

(* A thread that has executed its request and not yet closed its socket    *)
(* sends, shuts down and closes that socket and no other.                  *)
LEMMA OwnSocket ==
  ASSUME TypeOK, BatchInv, CallInv, Running, NEW t \in Conns,
         thread[t].pc \in {"send", "shutdown", "close"}
  PROVE  /\ thread[t].args["client_socket"] = t
         /\ fdOf[t] \in Descriptors /\ fdt[fdOf[t]] = Socket(t)
         /\ Peer(t) = Socket(t) /\ Peer(t).kind = "sock" /\ Peer(t).id = t
  <1>1. thread[t].args["client_socket"] = t
    BY DEF CallInv, ArgsInv, Executed, Fields
  <1>2. t <= accepted
    BY DEF BatchInv, TypeOK, Conns
  <1>3. fdOf[t] \in Descriptors /\ fdt[fdOf[t]] = Socket(t)
    BY <1>2 DEF CallInv, SocketInv
  <1>. QED  BY <1>1, <1>3 DEF Peer, Socket

(* A thread that has all its arguments executes the request of its own     *)
(* connection, whose client is waiting for it.                             *)
LEMMA OwnRequest ==
  ASSUME NEW k, Clients = {k}, TypeOK, BatchInv, CallInv, NEW t \in Conns, Loaded(t)
  PROVE  /\ Running /\ thread[t].pc = "start" /\ call[k] = t
         /\ \A f \in Fields : thread[t].args[f] = t
         /\ Decoded(t) = {net[t].request}
         /\ net[t].request.fn \in Functions
         /\ net[t].request.fn # "UNSUPPORTED"
         /\ net[t].request.fn = "CLOSE" => net[t].request.fd \in Descriptors
  <1>1. Running /\ thread[t].pc = "start" /\ \A f \in Fields : thread[t].args[f] # 0
    BY DEF Loaded, At
  <1>2. \A f \in Fields : thread[t].args[f] = t
    BY <1>1 DEF CallInv, ArgsInv
  <1>3. call[k] = t
    BY <1>1, NewestThread DEF CallInv, Replied
  <1>4. Received(t)
    BY <1>1 DEF CallInv, ArgsInv, Live
  <1>5. Decoded(t) = {net[t].request}
    BY <1>2, <1>4 DEF Decoded, Received, Fields
  <1>6. /\ net[t].request.fn \in Functions
        /\ net[t].request.fn = "CLOSE" => net[t].request.fd \in Descriptors
    BY <1>4 DEF CallInv, ArgsInv, Received
  <1>7. net[t].request.fn # "UNSUPPORTED"
    BY <1>6, ConstantsAssumption DEF Kinds
  <1>. QED  BY <1>1, <1>2, <1>3, <1>5, <1>6, <1>7

(* A handler copies `argument' while it still is its own connection's.     *)
LEMMA LoadCall ==
  ASSUME NEW k, Clients = {k}, TypeOK, BatchInv, CallInv,
         NEW t \in Conns, NEW f \in Fields, Load(t, f)
  PROVE  CallInv'
  <1>1. /\ Running /\ Running' /\ thread[t].pc = "start"
        /\ UNCHANGED <<main, accepted, connected, payload, fdt, fdOf, net, call, handles>>
    BY DEF Load, At, Running, mainVars, clientVars
  <1>2. argument[f] = t
    BY <1>1, NewestThread DEF CallInv, Replied
  <1>3. /\ thread[t].args \in [Fields -> 0..MaxConns]
        /\ thread'[t].args = [thread[t].args EXCEPT ![f] = t]
        /\ thread'[t].pc = "start" /\ thread'[t].reply = thread[t].reply
        /\ \A u \in Conns \ {t} : thread'[u] = thread[u]
    BY <1>1, <1>2 DEF Load, TypeOK, Thread
  <1>4. \A c \in Conns : /\ \A g \in Fields : thread'[c].args[g] \in {thread[c].args[g], c}
                         /\ thread'[c].pc = thread[c].pc
                         /\ thread'[c].reply = thread[c].reply
    BY <1>1, <1>3
  <1>5. ArgsInv'
    BY <1>1, <1>4 DEF CallInv, ArgsInv, Received, Live, Executed
  <1>6. ReplyInv'
    BY <1>1, <1>4 DEF CallInv, ReplyInv, Replied
  <1>7. SocketInv'
    BY <1>1, <1>4 DEF CallInv, SocketInv
  <1>8. FileInv'
    <2>1. \A c \in Conns : Executed(c)' <=> Executed(c)
      BY <1>4 DEF Executed
    <2>. QED  BY <1>1, <1>4, <2>1, FileFrame DEF CallInv
  <1>. QED  BY <1>5, <1>6, <1>7, <1>8 DEF CallInv

(* What the switch does for the call in progress, and that no socket is    *)
(* lost by it: an OPEN takes a free descriptor, and the descriptor of a    *)
(* CLOSE is a file.                                                        *)
LEMMA OwnOutcome ==
  ASSUME NEW k, Clients = {k}, TypeOK, BatchInv, CallInv, NEW t \in Conns, Loaded(t),
         NEW o \in Outcomes(net[t].request, t)
  PROVE  /\ \/ /\ net[t].request.fn = "OPEN"
               /\ o.table = fdt /\ o.value = -1
            \/ /\ net[t].request.fn = "OPEN"
               /\ \E d \in Descriptors : /\ fdt[d] = FreeFd /\ o.value = d
                                         /\ o.table = [fdt EXCEPT ![d] = File(t)]
            \/ /\ net[t].request.fn = "CLOSE"
               /\ net[t].request.fd \in Descriptors
               /\ fdt[net[t].request.fd].kind = "file" /\ o.value = 0
               /\ o.table = [fdt EXCEPT ![net[t].request.fd] = FreeFd]
            \/ /\ net[t].request.fn \notin {"OPEN", "CLOSE"}
               /\ o.table = fdt /\ o.value = 0
         /\ NetAfter(o.table) = net
         /\ \A d \in Descriptors : fdt[d].kind = "sock" => o.table[d] = fdt[d]
  <1>. DEFINE r == net[t].request
  <1>1. /\ Running /\ thread[t].pc = "start" /\ call[k] = t
        /\ r.fn = "CLOSE" => r.fd \in Descriptors
    BY OwnRequest
  <1>2. r.fn = "CLOSE" => fdt[r.fd].kind = "file"
    <2>1. SUFFICES ASSUME r.fn = "CLOSE"
                   PROVE  fdt[r.fd].kind = "file"
      OBVIOUS
    <2>2. r \in Request
      BY DEF TypeOK, Channel
    <2>3. r = [fn |-> "CLOSE", fd |-> r.fd]
      BY <2>1, <2>2 DEF Request
    <2>4. Closing(k, r.fd)
      BY <1>1, <2>3, ConnNumbers DEF Closing
    <2>5. ~Executed(call[k])
      BY <1>1 DEF Executed
    <2>. QED  BY <1>1, <2>1, <2>4, <2>5 DEF CallInv, FileInv
  <1>3. FreeFd.kind # "file" /\ FreeFd.kind # "sock"
    BY DEF FreeFd
  <1>4. /\ \/ /\ r.fn = "OPEN"
              /\ o.table = fdt /\ o.value = -1
           \/ /\ r.fn = "OPEN"
              /\ \E d \in Descriptors : /\ fdt[d] = FreeFd /\ o.value = d
                                        /\ o.table = [fdt EXCEPT ![d] = File(t)]
           \/ /\ r.fn = "CLOSE"
              /\ r.fd \in Descriptors
              /\ fdt[r.fd].kind = "file" /\ o.value = 0
              /\ o.table = [fdt EXCEPT ![r.fd] = FreeFd]
           \/ /\ r.fn \notin {"OPEN", "CLOSE"}
              /\ o.table = fdt /\ o.value = 0
    <2>1. CASE r.fn = "OPEN"
      <3>1. o \in Opened(t)
        BY <2>1 DEF Outcomes
      <3>. QED  BY <2>1, <3>1 DEF Opened, LowestFd, FreeFds
    <2>2. CASE r.fn = "CLOSE"
      <3>1. o \in Closed(r.fd)
        BY <2>2 DEF Outcomes
      <3>. QED  BY <1>1, <1>2, <1>3, <2>2, <3>1 DEF Closed
    <2>3. CASE r.fn \notin {"OPEN", "CLOSE"}
      <3>1. o \in {[table |-> fdt, value |-> 0]}
        BY <2>3 DEF Outcomes
      <3>. QED  BY <2>3, <3>1
    <2>. QED  BY <2>1, <2>2, <2>3
  <1>5. \A d \in Descriptors : fdt[d].kind = "sock" => o.table[d] = fdt[d]
    BY <1>3, <1>4 DEF TypeOK
  <1>6. NetAfter(o.table) = net
    <2>1. \A c : Socket(c).kind = "sock"
      BY DEF Socket
    <2>2. NetAfter(o.table) = [c \in Conns |-> net[c]]
      BY <1>5, <2>1 DEF NetAfter
    <2>. QED  BY <2>2 DEF TypeOK
  <1>. QED  BY <1>4, <1>5, <1>6

(* The switch: only the file of the call in progress is opened or closed.  *)
LEMMA ExecuteCall ==
  ASSUME NEW k, Clients = {k}, TypeOK, BatchInv, CallInv, NEW t \in Conns, Execute(t)
  PROVE  CallInv'
  <1>. DEFINE r == net[t].request
  <1>1. /\ Loaded(t)
        /\ UNCHANGED <<main, accepted, connected, payload, fdOf, call, handles>>
        /\ Running' = Running
    BY DEF Execute, mainVars, clientVars, Running
  <1>2. /\ Running /\ thread[t].pc = "start" /\ call[k] = t
        /\ \A f \in Fields : thread[t].args[f] = t
        /\ Decoded(t) = {r}
    BY <1>1, OwnRequest
  <1>3. PICK o \in Outcomes(r, t) :
          /\ fdt' = o.table /\ net' = NetAfter(o.table)
          /\ thread' = [thread EXCEPT ![t].pc = "send",
                                      ![t].reply = [of |-> t, value |-> o.value]]
    BY <1>2 DEF Execute, Fields
  <1>4. net' = net /\ \A d \in Descriptors : fdt[d].kind = "sock" => fdt'[d] = fdt[d]
    BY <1>1, <1>3, OwnOutcome
  <1>5. /\ thread'[t].pc = "send" /\ thread'[t].args = thread[t].args
        /\ thread'[t].reply = [of |-> t, value |-> o.value]
        /\ \A c \in Conns \ {t} : thread'[c] = thread[c]
    BY <1>3 DEF TypeOK, Thread
  <1>6. ArgsInv'
    BY <1>1, <1>2, <1>4, <1>5 DEF CallInv, ArgsInv, Received, Live, Executed
  <1>7. ReplyInv'
    <2>1. ~net[t].fin /\ net[t].replies = <<>> /\ ~Replied(t)'
      BY <1>2, <1>5 DEF CallInv, ReplyInv, Replied
    <2>. QED  BY <1>1, <1>2, <1>4, <1>5, <2>1, ReplyFrame DEF CallInv
  <1>8. SocketInv'
    <2>1. \A c : Socket(c).kind = "sock"
      BY DEF Socket
    <2>. QED  BY <1>1, <1>2, <1>4, <1>5, <2>1 DEF CallInv, SocketInv
  <1>9. FileInv'
    <2>1. \A c, d : c # t => (OpenedBy(c, d)' <=> OpenedBy(c, d))
      BY <1>4, <1>5 DEF OpenedBy, Executed
    <2>2. \A d : /\ ~OpenedBy(t, d)
                 /\ OpenedBy(call[k], d)' <=> r.fn = "OPEN" /\ o.value = d
                 /\ Closing(k, d)' <=> Closing(k, d)
                 /\ Closing(k, d) => r.fn = "CLOSE" /\ r.fd = d
                 /\ Executed(call[k])' /\ ~Executed(call[k])
      BY <1>1, <1>2, <1>4, <1>5 DEF OpenedBy, Executed, Closing
    <2>3. r.fn = "CLOSE" => Closing(k, r.fd)
      <3>1. r \in Request
        BY DEF TypeOK, Channel
      <3>2. r.fn = "CLOSE" => r = [fn |-> "CLOSE", fd |-> r.fd]
        BY <3>1 DEF Request
      <3>. QED  BY <1>2, <3>2, ConnNumbers DEF Closing
    <2>4. \A d \in Descriptors :
            /\ fdt[d].kind = "file" =>
                  /\ fdt[d].id # t /\ OpenedBy(fdt[d].id, d)
                  /\ d \in handles[k] \/ Closing(k, d)
            /\ d \in handles[k] => fdt[d].kind = "file"
            /\ Closing(k, d) => d \notin handles[k]
      BY <1>2, <2>2 DEF CallInv, FileInv
    <2>5. \A d : OpenedBy(fdt[d].id, d) /\ fdt[d].id # t /\ fdt'[d] = fdt[d]
                 => OpenedBy(fdt[d].id, d)'
      BY <1>4, <1>5 DEF OpenedBy, Executed
    <2>6. CASE r.fn # "CLOSE" /\ fdt' = fdt /\ \A d \in Descriptors : ~OpenedBy(call[k], d)'
      <3>1. \A d \in Descriptors : ~Closing(k, d)
        BY <2>2, <2>6
      <3>. QED  BY <1>1, <2>2, <2>4, <2>5, <2>6, <3>1 DEF FileInv
    <2>7. CASE /\ r.fn = "OPEN"
               /\ \E d \in Descriptors : /\ fdt[d] = FreeFd /\ o.value = d
                                         /\ fdt' = [fdt EXCEPT ![d] = File(t)]
      <3>1. PICK e \in Descriptors : /\ fdt[e] = FreeFd /\ o.value = e
                                     /\ fdt' = [fdt EXCEPT ![e] = File(t)]
        BY <2>7
      <3>2. /\ fdt'[e] = File(t) /\ File(t).kind = "file" /\ File(t).id = t
            /\ \A d \in Descriptors \ {e} : fdt'[d] = fdt[d]
            /\ \A d : ~Closing(k, d)
        BY <2>2, <2>7, <3>1 DEF TypeOK, File
      <3>3. OpenedBy(fdt[e].id, e)' /\ call'[k] = fdt'[e].id
        BY <1>1, <1>2, <1>4, <1>5, <2>7, <3>1, <3>2 DEF OpenedBy, Executed
      <3>4. \A d \in Descriptors : OpenedBy(call[k], d)' => d = e
        BY <2>2, <3>1
      <3>5. File(call[k])' = File(t)
        BY <1>1, <1>2 DEF File
      <3>. QED  BY <1>1, <2>2, <2>4, <2>5, <3>2, <3>3, <3>4, <3>5 DEF FileInv
    <2>8. CASE /\ r.fn = "CLOSE" /\ r.fd \in Descriptors
               /\ fdt' = [fdt EXCEPT ![r.fd] = FreeFd]
      <3>1. /\ fdt'[r.fd].kind # "file"
            /\ \A d \in Descriptors \ {r.fd} : fdt'[d] = fdt[d] /\ ~Closing(k, d)
            /\ \A d \in Descriptors : ~OpenedBy(call[k], d)'
        BY <2>2, <2>8 DEF TypeOK, FreeFd
      <3>. QED  BY <1>1, <2>2, <2>3, <2>4, <2>5, <2>8, <3>1 DEF FileInv
    <2>9. \/ r.fn = "OPEN" /\ fdt' = fdt /\ o.value = -1
          \/ r.fn \notin {"OPEN", "CLOSE"} /\ fdt' = fdt
          \/ /\ r.fn = "OPEN"
             /\ \E d \in Descriptors : /\ fdt[d] = FreeFd /\ o.value = d
                                       /\ fdt' = [fdt EXCEPT ![d] = File(t)]
          \/ /\ r.fn = "CLOSE" /\ r.fd \in Descriptors
             /\ fdt' = [fdt EXCEPT ![r.fd] = FreeFd]
      BY <1>1, <1>3, OwnOutcome
    <2>10. -1 \notin Descriptors
      BY ConstantsAssumption
    <2>. QED  BY <2>2, <2>6, <2>7, <2>8, <2>9, <2>10
  <1>. QED  BY <1>6, <1>7, <1>8, <1>9 DEF CallInv

(* send(): the reply goes to the client that waits for it.                 *)
LEMMA SendReplyCall ==
  ASSUME NEW k, Clients = {k}, MaxFaults = 0, TypeOK, BatchInv, CallInv,
         NEW t \in Conns, SendReply(t)
  PROVE  CallInv'
  <1>1. /\ Running /\ Running' /\ thread[t].pc = "send"
        /\ UNCHANGED <<main, accepted, connected, payload, fdt, fdOf, call, handles>>
    BY DEF SendReply, At, Running, mainVars, clientVars
  <1>2. call[k] = t
    BY <1>1, NewestThread DEF CallInv, Replied
  <1>3. /\ net[t].up /\ ~net[t].fin /\ ~net[t].reset /\ net[t].replies = <<>>
        /\ ~(t > connected)
    BY <1>1, <1>2 DEF CallInv, ReplyInv, Replied
  <1>4. Peer(t).kind = "sock" /\ Peer(t).id = t
    BY <1>1, OwnSocket
  <1>5. ~CanFail
    BY DEF CanFail, TypeOK
  <1>6. /\ Goto(t, "shutdown")
        /\ net' = [net EXCEPT ![t].replies = Append(net[t].replies, thread[t].reply),
                              ![t].reset = net[t].reset \/ ~net[t].up]
    BY <1>3, <1>4, <1>5 DEF SendReply
  <1>7. /\ thread'[t].pc = "shutdown" /\ thread'[t].args = thread[t].args
        /\ thread'[t].reply = thread[t].reply
        /\ \A c \in Conns \ {t} : thread'[c] = thread[c]
    BY <1>6, GotoEffect
  <1>8. \A c \in Conns : /\ net'[c].request = net[c].request
                         /\ net'[c].fin <=> net[c].fin
                         /\ net'[c].reset <=> net[c].reset
                         /\ net'[c].client = net[c].client
                         /\ net'[c].up <=> net[c].up
                         /\ c # t => net'[c].replies = net[c].replies
    BY <1>3, <1>6 DEF TypeOK, Channel
  <1>9. net'[t].replies = <<thread[t].reply>>
    <2>1. Append(<<>>, thread[t].reply) = <<thread[t].reply>>
      OBVIOUS
    <2>2. net'[t].replies = Append(net[t].replies, thread[t].reply)
      BY <1>6 DEF TypeOK, Channel
    <2>. QED  BY <1>3, <2>1, <2>2
  <1>10. ArgsInv'
    <2>1. main \notin {"store", "create"}
      BY <1>1, NewestThread DEF CallInv, Replied
    <2>. QED  BY <1>1, <1>7, <1>8, <2>1 DEF CallInv, ArgsInv, Received, Live, Executed
  <1>11. ReplyInv'
    <2>1. Replied(t)'
      BY <1>7 DEF Replied
    <2>. QED  BY <1>1, <1>3, <1>7, <1>8, <1>9, <2>1, ReplyFrame DEF CallInv
  <1>12. SocketInv'
    BY <1>1, <1>7 DEF CallInv, SocketInv
  <1>13. FileInv'
    <2>1. \A c \in Conns : /\ Executed(c)' <=> Executed(c)
                           /\ thread'[c].reply = thread[c].reply
      BY <1>1, <1>7 DEF Executed
    <2>. QED  BY <1>1, <1>8, <2>1, FileFrame DEF CallInv
  <1>. QED  BY <1>10, <1>11, <1>12, <1>13 DEF CallInv

(* shutdown() of the thread's own socket.                                  *)
LEMMA ShutdownCall ==
  ASSUME NEW k, Clients = {k}, TypeOK, BatchInv, CallInv, NEW t \in Conns, Shutdown(t)
  PROVE  CallInv'
  <1>1. /\ Running /\ Running' /\ thread[t].pc = "shutdown"
        /\ UNCHANGED <<main, accepted, connected, payload, fdt, fdOf, call, handles>>
    BY DEF Shutdown, At, Running, mainVars, clientVars
  <1>2. Peer(t).kind = "sock" /\ Peer(t).id = t /\ ~net[t].reset
    BY <1>1, OwnSocket DEF CallInv, ReplyInv
  <1>3. Goto(t, "close") /\ net' = [net EXCEPT ![t].fin = TRUE]
    BY <1>2 DEF Shutdown
  <1>4. /\ thread'[t].pc = "close" /\ thread'[t].args = thread[t].args
        /\ thread'[t].reply = thread[t].reply
        /\ \A c \in Conns \ {t} : thread'[c] = thread[c]
    BY <1>3, GotoEffect
  <1>5. \A c \in Conns : /\ net'[c].request = net[c].request
                         /\ c # t => (net'[c].fin <=> net[c].fin)
                         /\ net'[c].reset <=> net[c].reset
                         /\ net'[c].client = net[c].client
                         /\ net'[c].up <=> net[c].up
                         /\ net'[c].replies = net[c].replies
    BY <1>3 DEF TypeOK, Channel
  <1>6. ArgsInv'
    <2>1. accepted \in Conns /\ Received(accepted) => Received(accepted)'
      BY <1>1, <1>5 DEF Received
    <2>2. main \in {"store", "create"} => accepted \in Conns
      BY NewestAccepted DEF CallInv
    <2>. QED  BY <1>1, <1>4, <1>5, <2>1, <2>2 DEF CallInv, ArgsInv, Received, Live, Executed
  <1>7. ReplyInv'
    <2>1. Replied(t)' /\ net[t].replies = <<thread[t].reply>>
      BY <1>1, <1>4 DEF CallInv, ReplyInv, Replied
    <2>. QED  BY <1>1, <1>4, <1>5, <2>1, ReplyFrame DEF CallInv
  <1>8. SocketInv'
    BY <1>1, <1>4 DEF CallInv, SocketInv
  <1>9. FileInv'
    <2>1. \A c \in Conns : /\ Executed(c)' <=> Executed(c)
                           /\ thread'[c].reply = thread[c].reply
      BY <1>1, <1>4 DEF Executed
    <2>. QED  BY <1>1, <1>5, <2>1, FileFrame DEF CallInv
  <1>. QED  BY <1>6, <1>7, <1>8, <1>9 DEF CallInv

(* close() of the thread's own socket: no other connection loses its own.  *)
LEMMA CloseSocketCall ==
  ASSUME NEW k, Clients = {k}, TypeOK, BatchInv, CallInv, NEW t \in Conns, CloseSocket(t)
  PROVE  CallInv'
  <1>1. /\ Running /\ Running' /\ thread[t].pc = "close" /\ Goto(t, "cleanup")
        /\ UNCHANGED <<main, accepted, connected, payload, fdOf, call, handles>>
    BY DEF CloseSocket, At, Running, mainVars, clientVars
  <1>2. /\ thread[t].args["client_socket"] = t
        /\ fdOf[t] \in Descriptors /\ fdt[fdOf[t]] = Socket(t)
    BY <1>1, OwnSocket
  <1>3. fdt' = [fdt EXCEPT ![fdOf[t]] = FreeFd] /\ net' = NetAfter(fdt')
    BY <1>2 DEF CloseSocket
  <1>4. /\ fdt'[fdOf[t]] = FreeFd
        /\ \A d \in Descriptors \ {fdOf[t]} : fdt'[d] = fdt[d]
    BY <1>2, <1>3 DEF TypeOK
  <1>5. /\ thread'[t].pc = "cleanup" /\ thread'[t].args = thread[t].args
        /\ thread'[t].reply = thread[t].reply
        /\ \A c \in Conns \ {t} : thread'[c] = thread[c]
    BY <1>1, GotoEffect
  <1>6. \A c \in Conns : Socket(c) = Socket(t) => c = t
    BY DEF Socket
  <1>7. \A c \in Conns : /\ net'[c] \in {net[c], [net[c] EXCEPT !.fin = TRUE]}
                         /\ c # t => net'[c] = net[c]
    BY <1>2, <1>3, <1>4, <1>6 DEF NetAfter
  <1>8. \A c \in Conns : /\ net'[c].request = net[c].request
                         /\ net'[c].reset <=> net[c].reset
                         /\ net'[c].client = net[c].client
                         /\ net'[c].up <=> net[c].up
                         /\ net'[c].replies = net[c].replies
    <2>1. ASSUME NEW c \in Conns, net'[c] = [net[c] EXCEPT !.fin = TRUE]
          PROVE  /\ net'[c].request = net[c].request
                 /\ net'[c].reset <=> net[c].reset
                 /\ net'[c].client = net[c].client
                 /\ net'[c].up <=> net[c].up
                 /\ net'[c].replies = net[c].replies
      BY <2>1 DEF TypeOK, Channel
    <2>. QED  BY <1>7, <2>1
  <1>9. ArgsInv'
    <2>1. accepted \in Conns /\ Received(accepted) => Received(accepted)'
      BY <1>1, <1>8 DEF Received
    <2>2. main \in {"store", "create"} => accepted \in Conns
      BY NewestAccepted DEF CallInv
    <2>. QED  BY <1>1, <1>5, <1>8, <2>1, <2>2 DEF CallInv, ArgsInv, Received, Live, Executed
  <1>10. ReplyInv'
    <2>1. Replied(t)' /\ net[t].replies = <<thread[t].reply>>
      BY <1>1, <1>5 DEF CallInv, ReplyInv, Replied
    <2>. QED  BY <1>1, <1>5, <1>7, <1>8, <2>1, ReplyFrame DEF CallInv
  <1>11. SocketInv'
    BY <1>1, <1>2, <1>4, <1>5, <1>6 DEF CallInv, SocketInv
  <1>12. FileInv'
    <2>1. \A c \in Conns : /\ Executed(c)' <=> Executed(c)
                           /\ thread'[c].reply = thread[c].reply
      BY <1>1, <1>5 DEF Executed
    <2>2. \A d \in Descriptors :
            fdt[d].kind = "file" \/ fdt'[d].kind = "file" => fdt'[d] = fdt[d]
      BY <1>2, <1>4 DEF Socket, FreeFd
    <2>. QED  BY <1>1, <1>8, <2>1, <2>2, FileFrame DEF CallInv
  <1>. QED  BY <1>9, <1>10, <1>11, <1>12 DEF CallInv

(* free(): the thread releases its own payload, which nobody else uses.    *)
LEMMA CleanupCall ==
  ASSUME NEW k, Clients = {k}, TypeOK, BatchInv, CallInv, NEW t \in Conns, Cleanup(t)
  PROVE  CallInv'
  <1>1. /\ Running /\ Running' /\ thread[t].pc = "cleanup" /\ Goto(t, "done")
        /\ UNCHANGED <<main, accepted, connected, fdt, fdOf, net, call, handles>>
    BY DEF Cleanup, At, Running, mainVars, clientVars
  <1>2. thread[t].args["payload"] = t
    BY <1>1 DEF CallInv, ArgsInv, Executed, Fields
  <1>3. \A c \in Conns \ {t} : payload'[c] = payload[c]
    BY <1>2 DEF Cleanup, TypeOK
  <1>4. /\ thread'[t].pc = "done" /\ thread'[t].args = thread[t].args
        /\ thread'[t].reply = thread[t].reply
        /\ \A c \in Conns \ {t} : thread'[c] = thread[c]
    BY <1>1, GotoEffect
  <1>5. ArgsInv'
    <2>1. main \in {"store", "create"} => accepted \in Conns /\ accepted # t
      BY <1>1, NewestAccepted DEF CallInv
    <2>2. accepted \in Conns /\ accepted # t /\ Received(accepted) => Received(accepted)'
      BY <1>1, <1>3 DEF Received
    <2>3. ASSUME NEW c \in Conns
          PROVE  Live(c)' => Received(c)'
      BY <1>1, <1>3, <1>4 DEF CallInv, ArgsInv, Received, Live
    <2>. QED  BY <1>1, <1>4, <2>1, <2>2, <2>3 DEF CallInv, ArgsInv, Executed
  <1>6. ReplyInv'
    <2>1. /\ Replied(t)' /\ net[t].replies = <<thread[t].reply>>
      BY <1>1, <1>4 DEF CallInv, ReplyInv, Replied
    <2>. QED  BY <1>1, <1>4, <2>1, ReplyFrame DEF CallInv
  <1>7. SocketInv'
    BY <1>1, <1>4 DEF CallInv, SocketInv
  <1>8. FileInv'
    <2>1. \A c \in Conns : /\ Executed(c)' <=> Executed(c)
                           /\ thread'[c].reply = thread[c].reply
      BY <1>1, <1>4 DEF Executed
    <2>. QED  BY <1>1, <2>1, FileFrame DEF CallInv
  <1>. QED  BY <1>5, <1>6, <1>7, <1>8 DEF CallInv

(* What cannot happen to a call that no other overlaps: a request that     *)
(* fails in the switch, a WRITE with a size that is not its payload's, a   *)
(* signal from send(), a second free().                                    *)
LEMMA NoHandlerFailure ==
  ASSUME NEW k, Clients = {k}, MaxFaults = 0, TypeOK, BatchInv, CallInv, NEW t \in Conns
  PROVE  /\ ~ExecuteFails(t) /\ ~WildWriteAborts(t)
         /\ ~SendKills(t) /\ ~DoubleFreeAborts(t)
  <1>0. ~CanFail
    BY DEF CanFail, TypeOK
  <1>1. ~ExecuteFails(t)
    <2>. SUFFICES ASSUME ExecuteFails(t)
                  PROVE  FALSE
      OBVIOUS
    <2>1. Decoded(t) = {net[t].request} /\ net[t].request.fn # "UNSUPPORTED"
      BY OwnRequest DEF ExecuteFails
    <2>. QED  BY <1>0, <2>1 DEF ExecuteFails
  <1>2. ~WildWriteAborts(t)
    <2>. SUFFICES ASSUME WildWriteAborts(t)
                  PROVE  FALSE
      OBVIOUS
    <2>1. \A f \in Fields : thread[t].args[f] = t
      BY OwnRequest DEF WildWriteAborts
    <2>. QED  BY <2>1 DEF WildWriteAborts, Fields
  <1>3. ~SendKills(t)
    <2>. SUFFICES ASSUME SendKills(t)
                  PROVE  FALSE
      OBVIOUS
    <2>1. Running /\ thread[t].pc = "send" /\ (net[Peer(t).id].fin \/ net[Peer(t).id].reset)
      BY DEF SendKills, At
    <2>2. Peer(t).id = t
      BY <2>1, OwnSocket
    <2>. QED  BY <2>1, <2>2 DEF CallInv, ReplyInv
  <1>4. ~DoubleFreeAborts(t)
    <2>. SUFFICES ASSUME DoubleFreeAborts(t)
                  PROVE  FALSE
      OBVIOUS
    <2>1. thread[t].pc = "cleanup" /\ payload[thread[t].args["payload"]].state = "freed"
      BY DEF DoubleFreeAborts, At
    <2>2. thread[t].args["payload"] = t /\ Received(t)
      BY <2>1 DEF CallInv, ArgsInv, Executed, Live, Fields
    <2>. QED  BY <2>1, <2>2 DEF Received
  <1>. QED  BY <1>1, <1>2, <1>3, <1>4

-----------------------------------------------------------------------------
(* The case these proofs are about.                                        *)
Sequential == (\E k : Clients = {k}) /\ MaxFaults = 0 /\ MaxAbandons = 0

(* Every step of the system preserves the invariant.                       *)
LEMMA CallStep ==
  ASSUME Sequential, TypeOK, BatchInv, CallInv, [Next]_vars
  PROVE  CallInv'
  <1>1. PICK k : Clients = {k}
    BY DEF Sequential
  <1>2. MaxFaults = 0 /\ MaxAbandons = 0 /\ ~CanFail
    BY DEF Sequential, CanFail, TypeOK
  <1>3. CASE Connect(k)
    BY <1>1, <1>3, ConnectCall
  <1>4. CASE ClientStep(k)
    BY <1>1, <1>4, SendCall, ReceiveReplyCall, ReceiveNothingCall DEF ClientStep
  <1>5. ~Abandon(k)
    BY <1>2 DEF Abandon, TypeOK
  <1>6. CASE MainStep
    BY <1>1, <1>2, <1>6, AcceptCall, AcceptNoFdCall, ReceiveCall, StoreCall,
       CreateThreadCall, JoinCall DEF MainStep
  <1>7. ~MainFails /\ ~Sigint
    BY <1>2 DEF MainFails, Sigint
  <1>8. ASSUME NEW t \in Conns, HandlerStep(t)
        PROVE  CallInv'
    BY <1>1, <1>2, <1>8, NoHandlerFailure, LoadCall, ExecuteCall, SendReplyCall,
       ShutdownCall, CloseSocketCall, CleanupCall DEF HandlerStep
  <1>9. CASE UNCHANGED vars
    <2>1. ArgsInv'
      BY <1>9 DEF vars, CallInv, ArgsInv, Received, Live, Executed
    <2>2. ReplyInv'
      BY <1>9 DEF vars, CallInv, ReplyInv, Replied, Running
    <2>3. SocketInv'
      BY <1>9 DEF vars, CallInv, SocketInv, Running
    <2>4. FileInv'
      <3>1. CASE ~Running
        BY <1>9, <3>1 DEF vars, Running, FileInv
      <3>2. CASE Running
        BY <1>1, <1>9, <3>2, FileFrame DEF vars, CallInv, Executed
      <3>. QED  BY <3>1, <3>2
    <2>. QED  BY <2>1, <2>2, <2>3, <2>4 DEF CallInv
  <1>. QED  BY <1>1, <1>3, <1>4, <1>5, <1>6, <1>7, <1>8, <1>9 DEF Next

(***************************************************************************)
(* The inductive invariant of calls that do not overlap holds in every     *)
(* reachable state, for any number of calls, batches and descriptors.      *)
(***************************************************************************)
THEOREM Calls ==
  ASSUME Sequential
  PROVE  Spec => []CallInv
  <1>1. Init => CallInv
    <2>. SUFFICES ASSUME Init
                  PROVE  CallInv
      OBVIOUS
    <2>. USE ConstantsAssumption
    <2>1. /\ main = "accept" /\ accepted = 0 /\ connected = 0
          /\ \A c \in Conns : /\ thread[c].pc = "none"
                              /\ \A f \in Fields : thread[c].args[f] = 0
                              /\ net[c].request = NoRequest
                              /\ ~net[c].up /\ ~net[c].fin /\ ~net[c].reset
                              /\ net[c].replies = <<>>
          /\ \A k \in Clients : call[k] = 0 /\ handles[k] = {}
          /\ \A d \in Descriptors : fdt[d].kind = "free"
      BY DEF Init, FreeFd
    <2>2. ArgsInv
      BY <2>1 DEF ArgsInv, Live, Executed
    <2>3. ReplyInv
      BY <2>1, ConnNumbers DEF ReplyInv, Replied, Running
    <2>4. SocketInv
      BY <2>1, ConnNumbers DEF SocketInv
    <2>5. FileInv
      BY <2>1, ConnNumbers DEF FileInv, Closing, OpenedBy
    <2>. QED  BY <2>2, <2>3, <2>4, <2>5 DEF CallInv
  <1>2. TypeOK /\ BatchInv /\ CallInv /\ [Next]_vars => CallInv'
    BY CallStep
  <1>. QED  BY <1>1, <1>2, TypeCorrect, Batches, PTL DEF Spec

(***************************************************************************)
(* Every connection is served by its own thread, on its own payload and    *)
(* size and through its own socket, although all threads read the one      *)
(* `argument'.                                                             *)
(***************************************************************************)
THEOREM ServedByOwnThread ==
  ASSUME Sequential
  PROVE  Spec => []ServedByItsThread
  <1>1. CallInv => ServedByItsThread
    BY DEF CallInv, ArgsInv, ServedByItsThread
  <1>. QED  BY <1>1, Calls, PTL

(***************************************************************************)
(* A client is sent one reply, its own, whatever descriptors the server    *)
(* has reused in between.                                                  *)
(***************************************************************************)
THEOREM RepliesArrive ==
  ASSUME Sequential
  PROVE  Spec => []RepliesReachTheirCaller
  <1>1. CallInv => RepliesReachTheirCaller
    <2>. SUFFICES ASSUME CallInv, NEW c \in Conns
                  PROVE  \/ net[c].replies = <<>>
                         \/ Len(net[c].replies) = 1 /\ Head(net[c].replies).of = c
      BY DEF RepliesReachTheirCaller
    <2>1. net[c].replies = IF Replied(c) THEN <<thread[c].reply>> ELSE <<>>
      BY DEF CallInv, ReplyInv
    <2>2. Replied(c) => thread[c].reply.of = c
      BY DEF CallInv, ArgsInv, Executed, Replied
    <2>. QED  BY <2>1, <2>2
  <1>. QED  BY <1>1, Calls, PTL

(***************************************************************************)
(* No thread uses, or frees again, a payload that has been freed.          *)
(***************************************************************************)
THEOREM PayloadsLive ==
  ASSUME Sequential
  PROVE  Spec => []NoUseAfterFree
  <1>1. CallInv => NoUseAfterFree
    <2>. SUFFICES ASSUME CallInv, NEW t \in Conns, Live(t), thread[t].args["payload"] # 0
                  PROVE  payload[thread[t].args["payload"]].state = "live"
      BY DEF NoUseAfterFree
    <2>1. Received(t) /\ thread[t].args["payload"] = t
      BY DEF CallInv, ArgsInv, Fields
    <2>. QED  BY <2>1 DEF Received
  <1>. QED  BY <1>1, Calls, PTL

(* A request that has been executed has a client.                          *)
LEMMA ClientKnown ==
  ASSUME TypeOK, ReplyInv, NEW c \in Conns, Executed(c)
  PROVE  net[c].client \in Clients
  <1>1. ~(c > connected)
    BY DEF ReplyInv, Executed
  <1>2. c <= connected
    BY <1>1, ConnNumbers DEF TypeOK
  <1>. QED  BY <1>2 DEF ReplyInv

(***************************************************************************)
(* A descriptor the client holds is a file that a request of its own       *)
(* opened.                                                                 *)
(***************************************************************************)
THEOREM HandlesSound ==
  ASSUME Sequential
  PROVE  Spec => []HandlesDenoteFiles
  <1>1. TypeOK /\ CallInv => HandlesDenoteFiles
    <2>. SUFFICES ASSUME TypeOK, CallInv, Running, NEW k \in Clients, NEW d \in handles[k]
                  PROVE  fdt[d].kind = "file" /\ net[fdt[d].id].client = k
      BY DEF HandlesDenoteFiles
    <2>1. d \in Descriptors
      BY DEF TypeOK
    <2>2. fdt[d].kind = "file" /\ OpenedBy(fdt[d].id, d)
      BY <2>1 DEF CallInv, FileInv
    <2>3. net[fdt[d].id].client \in Clients
      BY <2>2, ClientKnown DEF OpenedBy, CallInv
    <2>. QED  BY <2>2, <2>3 DEF Sequential
  <1>. QED  BY <1>1, Calls, TypeCorrect, PTL

(***************************************************************************)
(* No file stays open that its client cannot close.                        *)
(***************************************************************************)
THEOREM FilesOwned ==
  ASSUME Sequential
  PROVE  Spec => []NoOrphanedFile
  <1>1. TypeOK /\ CallInv => NoOrphanedFile
    <2>. SUFFICES ASSUME TypeOK, CallInv, Running, NEW d \in Descriptors, fdt[d].kind = "file"
                  PROVE  \E k \in Clients :
                           /\ k = net[fdt[d].id].client
                           /\ d \in handles[k] \/ call[k] = fdt[d].id \/ Closing(k, d)
      BY DEF NoOrphanedFile
    <2>1. PICK k \in Clients : Clients = {k}
      BY DEF Sequential
    <2>2. /\ OpenedBy(fdt[d].id, d)
          /\ d \in handles[k] \/ call[k] = fdt[d].id \/ Closing(k, d)
      BY DEF CallInv, FileInv
    <2>3. net[fdt[d].id].client \in Clients
      BY <2>2, ClientKnown DEF OpenedBy, CallInv
    <2>. QED  BY <2>1, <2>2, <2>3
  <1>. QED  BY <1>1, Calls, TypeCorrect, PTL

-----------------------------------------------------------------------------
(* The refinement.  With one client, k, the state and the value that       *)
(* RpcServerImplements gives to a connection can be read off its own       *)
(* thread.                                                                 *)
CallState(k, c) ==
    IF net[c].request = NoRequest THEN "idle"
    ELSE IF call[k] = c THEN IF Executed(c) THEN "executed" ELSE "called"
    ELSE IF Replied(c) THEN "returned" ELSE "failed"

CallValue(k, c) ==
    IF CallState(k, c) \in {"executed", "returned"} THEN thread[c].reply.value ELSE 0

OpenFiles == {d \in Descriptors : fdt[d].kind = "file"}

Mapped(k) == \A c \in Conns : StateOf(c) = CallState(k, c) /\ ValueOf(c) = CallValue(k, c)

LEMMA MappedNow ==
  ASSUME NEW k, Clients = {k}, CallInv
  PROVE  Mapped(k)
  <1>. SUFFICES ASSUME NEW c \in Conns
                PROVE  StateOf(c) = CallState(k, c) /\ ValueOf(c) = CallValue(k, c)
    BY DEF Mapped
  <1>1. Executors(c) = IF Executed(c) THEN {c} ELSE {}
    BY DEF CallInv, ArgsInv, Executors, Executed, Fields
  <1>2. InProgress(c) <=> call[k] = c
    BY DEF InProgress
  <1>3. /\ net[c].replies = IF Replied(c) THEN <<thread[c].reply>> ELSE <<>>
        /\ Replied(c) => Executed(c)
    BY DEF CallInv, ReplyInv, Replied, Executed
  <1>4. net[c].replies = <<>> <=> ~Replied(c)
    BY <1>3
  <1>5. StateOf(c) = CallState(k, c)
    <2>1. Executors(c) = {} <=> ~Executed(c)
      BY <1>1
    <2>2. CASE net[c].request = NoRequest
      BY <2>2 DEF StateOf, CallState
    <2>3. CASE net[c].request # NoRequest /\ call[k] = c /\ ~Executed(c)
      BY <1>2, <2>1, <2>3 DEF StateOf, CallState
    <2>4. CASE net[c].request # NoRequest /\ call[k] = c /\ Executed(c)
      BY <1>2, <2>1, <2>4 DEF StateOf, CallState
    <2>5. CASE net[c].request # NoRequest /\ call[k] # c /\ ~Replied(c)
      BY <1>2, <1>4, <2>5 DEF StateOf, CallState
    <2>6. CASE net[c].request # NoRequest /\ call[k] # c /\ Replied(c)
      BY <1>2, <1>4, <2>6 DEF StateOf, CallState
    <2>. QED  BY <2>2, <2>3, <2>4, <2>5, <2>6
  <1>6. CASE StateOf(c) = "executed"
    <2>1. Executed(c)
      BY <1>1, <1>2, <1>5, <1>6 DEF CallState
    <2>2. (CHOOSE t \in Executors(c) : TRUE) = c
      BY <1>1, <2>1
    <2>3. ValueOf(c) = thread[CHOOSE t \in Executors(c) : TRUE].reply.value
      BY <1>6 DEF ValueOf
    <2>4. ValueOf(c) = thread[c].reply.value
      BY <2>2, <2>3
    <2>. QED  BY <1>5, <1>6, <2>4 DEF CallValue
  <1>7. CASE StateOf(c) = "returned"
    <2>1. Replied(c)
      BY <1>5, <1>7 DEF CallState
    <2>2. Head(net[c].replies) = thread[c].reply
      BY <1>3, <2>1
    <2>. QED  BY <1>5, <1>7, <2>2 DEF ValueOf, CallValue
  <1>8. CASE StateOf(c) \notin {"executed", "returned"}
    BY <1>5, <1>8 DEF ValueOf, CallValue
  <1>. QED  BY <1>5, <1>6, <1>7, <1>8

LEMMA MappedNext ==
  ASSUME NEW CONSTANT k, Clients = {k}
  PROVE  CallInv' => Mapped(k)'
  <1>1. CallInv => Mapped(k)
    BY MappedNow
  <1>. QED  BY <1>1, PTL

(* A step that leaves the four abstract variables alone.                   *)
LEMMA ServiceStutter ==
  ASSUME NEW k, Mapped(k), Mapped(k)',
         \A c \in Conns : /\ net'[c].request = net[c].request
                          /\ CallState(k, c)' = CallState(k, c)
                          /\ CallValue(k, c)' = CallValue(k, c),
         OpenFiles' = OpenFiles
  PROVE  UNCHANGED Service!vars
  <1>1. [c \in Conns |-> net[c].request]' = [c \in Conns |-> net[c].request]
    OBVIOUS
  <1>2. [c \in Conns |-> StateOf(c)]' = [c \in Conns |-> StateOf(c)]
    BY DEF Mapped
  <1>3. [c \in Conns |-> ValueOf(c)]' = [c \in Conns |-> ValueOf(c)]
    BY DEF Mapped
  <1>. QED  BY <1>1, <1>2, <1>3 DEF Service!vars, OpenFiles

(* A step that changes the abstract variables at connection n only.        *)
LEMMA ServiceUpdate ==
  ASSUME NEW k, Mapped(k), Mapped(k)', NEW n \in Conns,
         \A c \in Conns \ {n} : /\ net'[c].request = net[c].request
                                /\ CallState(k, c)' = CallState(k, c)
                                /\ CallValue(k, c)' = CallValue(k, c)
  PROVE  /\ [c \in Conns |-> net[c].request]' =
              [[c \in Conns |-> net[c].request] EXCEPT ![n] = net'[n].request]
         /\ [c \in Conns |-> StateOf(c)]' =
              [[c \in Conns |-> StateOf(c)] EXCEPT ![n] = CallState(k, n)']
         /\ [c \in Conns |-> ValueOf(c)]' =
              [[c \in Conns |-> ValueOf(c)] EXCEPT ![n] = CallValue(k, n)']
         /\ StateOf(n) = CallState(k, n)
  BY DEF Mapped

(* A step that changes no request, executes nothing and ends no call, and  *)
(* opens and closes no file, is invisible.                                 *)
LEMMA QuietStep ==
  ASSUME NEW k, Mapped(k), Mapped(k)', UNCHANGED call,
         \A c \in Conns : /\ net'[c].request = net[c].request
                          /\ thread'[c].reply = thread[c].reply
                          /\ Executed(c)' <=> Executed(c)
                          /\ call[k] # c => (Replied(c)' <=> Replied(c)),
         \A d \in Descriptors : fdt'[d].kind = "file" <=> fdt[d].kind = "file"
  PROVE  UNCHANGED Service!vars
  <1>1. \A c \in Conns : CallState(k, c)' = CallState(k, c)
    BY DEF CallState
  <1>2. \A c \in Conns : CallValue(k, c)' = CallValue(k, c)
    BY <1>1 DEF CallValue
  <1>3. OpenFiles' = OpenFiles
    BY DEF OpenFiles
  <1>. QED  BY <1>1, <1>2, <1>3, ServiceStutter

(* connect() is invisible: the call begins when its request is sent.       *)
LEMMA ConnectService ==
  ASSUME NEW k, Clients = {k}, TypeOK, CallInv, Mapped(k), Mapped(k)', Connect(k)
  PROVE  UNCHANGED Service!vars
  <1>. DEFINE n == connected + 1
  <1>1. /\ call[k] = 0 /\ call'[k] = n /\ UNCHANGED <<thread, fdt>>
        /\ net' = [net EXCEPT ![n].client = k, ![n].up = TRUE]
    BY DEF Connect, TypeOK
  <1>2. n \in Conns /\ n > connected
    BY ConstantsAssumption DEF Connect, TypeOK, Conns
  <1>3. net[n].request = NoRequest
    <2>. HIDE DEF n
    <2>. QED  BY <1>2 DEF CallInv, ReplyInv
  <1>. HIDE DEF n
  <1>4. \A c \in Conns : net'[c].request = net[c].request
    BY <1>1, <1>2 DEF TypeOK, Channel
  <1>5. \A c \in Conns : CallState(k, c)' = CallState(k, c)
    BY <1>1, <1>3, <1>4, ConnNumbers DEF CallState, Executed, Replied
  <1>6. \A c \in Conns : CallValue(k, c)' = CallValue(k, c)
    BY <1>1, <1>5 DEF CallValue
  <1>7. OpenFiles' = OpenFiles
    BY <1>1 DEF OpenFiles
  <1>. QED  BY <1>4, <1>5, <1>6, <1>7, ServiceStutter

(* send() of the request makes the call.                                   *)
LEMMA SendService ==
  ASSUME NEW k, Clients = {k}, TypeOK, CallInv, Mapped(k), Mapped(k)',
         NEW r \in Request, Send(k, r)
  PROVE  \E c \in Conns : Service!Call(c)
  <1>0. PICK n \in Conns : n = call[k]
    BY CallIsNewest DEF Send, CallInv
  <1>1. /\ call[k] = n /\ net[n].request = NoRequest /\ r.fn \in Functions
        /\ UNCHANGED <<thread, fdt, call>> /\ net' = [net EXCEPT ![n].request = r]
    BY <1>0 DEF Send
  <1>2. net'[n].request = r /\ \A c \in Conns \ {n} : net'[c].request = net[c].request
    BY <1>1 DEF TypeOK, Channel
  <1>3. r \in [fn : {"OPEN", "CLOSE", "WRITE", "OTHER"}, fd : Descriptors \cup {0}]
    BY <1>1, ConstantsAssumption DEF Request, Kinds, NoFd
  <1>4. ~Executed(n)
    BY <1>1 DEF CallInv, ArgsInv, Executed
  <1>5. r # NoRequest
    BY <1>1, ConstantsAssumption DEF NoRequest, Kinds
  <1>6. CallState(k, n) = "idle" /\ CallState(k, n)' = "called"
    BY <1>1, <1>2, <1>4, <1>5 DEF CallState, Executed
  <1>7. \A c \in Conns \ {n} : CallState(k, c)' = CallState(k, c)
    BY <1>1, <1>2 DEF CallState, Executed, Replied
  <1>8. \A c \in Conns : CallValue(k, c)' = CallValue(k, c)
    BY <1>1, <1>6, <1>7 DEF CallValue
  <1>9. /\ [c \in Conns |-> net[c].request]' =
              [[c \in Conns |-> net[c].request] EXCEPT ![n] = r]
        /\ [c \in Conns |-> StateOf(c)]' =
              [[c \in Conns |-> StateOf(c)] EXCEPT ![n] = "called"]
        /\ StateOf(n) = "idle"
    <2>1. \A c \in Conns \ {n} : /\ net'[c].request = net[c].request
                                 /\ CallState(k, c)' = CallState(k, c)
                                 /\ CallValue(k, c)' = CallValue(k, c)
      BY <1>2, <1>7, <1>8
    <2>2. /\ [c \in Conns |-> net[c].request]' =
               [[c \in Conns |-> net[c].request] EXCEPT ![n] = net'[n].request]
          /\ [c \in Conns |-> StateOf(c)]' =
               [[c \in Conns |-> StateOf(c)] EXCEPT ![n] = CallState(k, n)']
          /\ StateOf(n) = CallState(k, n)
      BY <2>1, ServiceUpdate
    <2>. QED  BY <1>2, <1>6, <2>2
  <1>10. [c \in Conns |-> ValueOf(c)]' = [c \in Conns |-> ValueOf(c)]
    BY <1>8 DEF Mapped
  <1>11. OpenFiles' = OpenFiles
    BY <1>1 DEF OpenFiles
  <1>12. Service!Call(n)
    BY <1>1, <1>3, <1>9, <1>10, <1>11 DEF Service!Call, Service!Step, OpenFiles
  <1>. QED  BY <1>12

(* A step that takes call n to its end and changes nothing else.           *)
LEMMA ServiceEnd ==
  ASSUME NEW k, Mapped(k), Mapped(k)', NEW n \in Conns,
         \A c \in Conns : /\ net'[c].request = net[c].request
                          /\ c # n => CallState(k, c)' = CallState(k, c)
                          /\ CallValue(k, c)' = CallValue(k, c),
         UNCHANGED fdt
  PROVE  /\ CallState(k, n) = "executed" /\ CallState(k, n)' = "returned" => Service!Return(n)
         /\ CallState(k, n) = "called" /\ CallState(k, n)' = "failed" => Service!Fail(n)
  <1>1. /\ [c \in Conns |-> StateOf(c)]' =
              [[c \in Conns |-> StateOf(c)] EXCEPT ![n] = CallState(k, n)']
        /\ StateOf(n) = CallState(k, n)
    BY ServiceUpdate
  <1>2. [c \in Conns |-> net[c].request]' = [c \in Conns |-> net[c].request]
    OBVIOUS
  <1>3. [c \in Conns |-> ValueOf(c)]' = [c \in Conns |-> ValueOf(c)]
    BY DEF Mapped
  <1>. QED  BY <1>1, <1>2, <1>3 DEF Service!Return, Service!Fail, Service!Step

(* recv() of the reply returns the call, with the value of its execution.  *)
LEMMA ReceiveReplyService ==
  ASSUME NEW k, Clients = {k}, TypeOK, CallInv, Mapped(k), Mapped(k)', ReceiveReply(k)
  PROVE  \E c \in Conns : Service!Return(c)
  <1>0. PICK n \in Conns : n = call[k]
    BY CallIsNewest DEF ReceiveReply, CallInv
  <1>1. /\ call[k] = n /\ call'[k] = 0 /\ net[n].request # NoRequest
        /\ net[n].replies # <<>> /\ UNCHANGED <<thread, fdt>>
        /\ net' = [net EXCEPT ![n].up = FALSE,
                              ![n].reset = net[n].reset \/ Len(net[n].replies) > 1]
    BY <1>0 DEF ReceiveReply, TypeOK
  <1>2. \A c \in Conns : net'[c].request = net[c].request
    BY <1>1 DEF TypeOK, Channel
  <1>3. Replied(n) /\ Executed(n) /\ Replied(n)'
    BY <1>1 DEF CallInv, ReplyInv, Executed, Replied
  <1>4. CallState(k, n) = "executed" /\ CallState(k, n)' = "returned"
    BY <1>1, <1>2, <1>3, ConnNumbers DEF CallState
  <1>5. \A c \in Conns : c # n => CallState(k, c)' = CallState(k, c)
    BY <1>1, <1>2, ConnNumbers DEF CallState, Executed, Replied
  <1>6. \A c \in Conns : CallValue(k, c)' = CallValue(k, c)
    BY <1>1, <1>4, <1>5 DEF CallValue
  <1>7. Service!Return(n)
    BY <1>1, <1>2, <1>4, <1>5, <1>6, ServiceEnd
  <1>. QED  BY <1>7

(* A call that ends because the process is gone fails unexecuted, unless   *)
(* its request has not even been sent.                                     *)
LEMMA ReceiveNothingService ==
  ASSUME NEW k, Clients = {k}, TypeOK, CallInv, Mapped(k), Mapped(k)', ReceiveNothing(k)
  PROVE  UNCHANGED Service!vars \/ \E c \in Conns : Service!Fail(c)
  <1>0. PICK n \in Conns : n = call[k]
    BY CallIsNewest DEF ReceiveNothing, CallInv
  <1>1. /\ call[k] = n /\ call'[k] = 0
        /\ net[n].replies = <<>> /\ UNCHANGED <<thread, fdt>>
        /\ net' = [net EXCEPT ![n].up = FALSE]
    BY <1>0 DEF ReceiveNothing, TypeOK
  <1>2. \A c \in Conns : net'[c].request = net[c].request
    BY <1>1 DEF TypeOK, Channel
  <1>3. ~Executed(n) /\ ~Replied(n) /\ ~Replied(n)'
    <2>1. ~Running
      BY ReceiveNothingCall
    <2>2. thread[n].pc # "send"
      BY <2>1 DEF CallInv, ReplyInv
    <2>3. Replied(n) => net[n].replies = <<thread[n].reply>>
      BY DEF CallInv, ReplyInv
    <2>4. ~Replied(n)
      BY <1>1, <2>3
    <2>5. thread[n].pc \in {"none", "start", "send", "shutdown", "close", "cleanup", "done"}
      BY DEF TypeOK, Thread
    <2>. QED  BY <1>1, <2>2, <2>4, <2>5 DEF Executed, Replied
  <1>4. \A c \in Conns : c # n => CallState(k, c)' = CallState(k, c)
    BY <1>1, <1>2, ConnNumbers DEF CallState, Executed, Replied
  <1>5. CASE net[n].request = NoRequest
    <2>1. \A c \in Conns : CallState(k, c)' = CallState(k, c)
      BY <1>2, <1>4, <1>5 DEF CallState
    <2>2. \A c \in Conns : CallValue(k, c)' = CallValue(k, c)
      BY <1>1, <2>1 DEF CallValue
    <2>3. OpenFiles' = OpenFiles
      BY <1>1 DEF OpenFiles
    <2>. QED  BY <1>2, <2>1, <2>2, <2>3, ServiceStutter
  <1>6. CASE net[n].request # NoRequest
    <2>1. CallState(k, n) = "called" /\ CallState(k, n)' = "failed"
      BY <1>1, <1>2, <1>3, <1>6, ConnNumbers DEF CallState
    <2>2. \A c \in Conns : CallValue(k, c)' = CallValue(k, c)
      BY <1>1, <1>4, <2>1 DEF CallValue
    <2>3. Service!Fail(n)
      BY <1>1, <1>2, <1>4, <2>1, <2>2, ServiceEnd
    <2>. QED  BY <2>3
  <1>. QED  BY <1>5, <1>6

(* The switch executes the call, at once and with the effect its function  *)
(* has on the open files.                                                  *)
LEMMA ExecuteService ==
  ASSUME NEW k, Clients = {k}, TypeOK, BatchInv, CallInv, Mapped(k), Mapped(k)',
         NEW t \in Conns, Execute(t)
  PROVE  Service!Execute(t)
  <1>. DEFINE r == net[t].request
              files == {d \in Descriptors : fdt[d].kind = "file"}
  <1>1. Loaded(t) /\ UNCHANGED call
    BY DEF Execute, clientVars
  <1>2. /\ thread[t].pc = "start" /\ call[k] = t /\ Decoded(t) = {r}
        /\ \A f \in Fields : thread[t].args[f] = t
    BY <1>1, OwnRequest
  <1>3. PICK o \in Outcomes(r, t) :
           /\ fdt' = o.table /\ net' = NetAfter(o.table)
           /\ thread' = [thread EXCEPT ![t].pc = "send",
                                       ![t].reply = [of |-> t, value |-> o.value]]
    BY <1>2 DEF Execute, Fields
  <1>4. net' = net
    BY <1>1, <1>3, OwnOutcome
  <1>5. /\ thread'[t].pc = "send" /\ thread'[t].reply.value = o.value
        /\ \A c \in Conns \ {t} : thread'[c] = thread[c]
    BY <1>3 DEF TypeOK, Thread
  <1>6. r # NoRequest
    BY <1>2 DEF CallInv, ArgsInv
  <1>7. /\ CallState(k, t) = "called" /\ CallState(k, t)' = "executed"
        /\ CallValue(k, t)' = o.value
    BY <1>1, <1>2, <1>4, <1>5, <1>6 DEF CallState, CallValue, Executed
  <1>8. \A c \in Conns \ {t} : /\ net'[c].request = net[c].request
                               /\ CallState(k, c)' = CallState(k, c)
                               /\ CallValue(k, c)' = CallValue(k, c)
    <2>1. \A c \in Conns \ {t} : CallState(k, c)' = CallState(k, c)
      BY <1>1, <1>4, <1>5 DEF CallState, Executed, Replied
    <2>. QED  BY <1>4, <1>5, <2>1 DEF CallValue
  <1>9. /\ [c \in Conns |-> StateOf(c)]' =
             [[c \in Conns |-> StateOf(c)] EXCEPT ![t] = CallState(k, t)']
        /\ [c \in Conns |-> ValueOf(c)]' =
             [[c \in Conns |-> ValueOf(c)] EXCEPT ![t] = CallValue(k, t)']
        /\ StateOf(t) = CallState(k, t)
    BY <1>8, ServiceUpdate
  <1>10. /\ Service!Step(t, "called", "executed")
         /\ [c \in Conns |-> ValueOf(c)]' =
              [[c \in Conns |-> ValueOf(c)] EXCEPT ![t] = o.value]
         /\ [c \in Conns |-> net[c].request]' = [c \in Conns |-> net[c].request]
         /\ [c \in Conns |-> net[c].request][t] = r
    BY <1>4, <1>7, <1>9 DEF Service!Step
  <1>11. CASE r.fn = "OPEN" /\ fdt' = fdt /\ o.value = -1
    <2>1. files' = files
      BY <1>11
    <2>2. Service!Open(t)
      BY <1>10, <1>11, <2>1 DEF Service!Open
    <2>. QED  BY <1>10, <2>2 DEF Service!Execute
  <1>12. CASE /\ r.fn = "OPEN"
              /\ \E d \in Descriptors : /\ fdt[d] = FreeFd /\ o.value = d
                                        /\ fdt' = [fdt EXCEPT ![d] = File(t)]
    <2>1. PICK d \in Descriptors : /\ fdt[d] = FreeFd /\ o.value = d
                                   /\ fdt' = [fdt EXCEPT ![d] = File(t)]
      BY <1>12
    <2>2. files' = files \cup {d} /\ d \in Descriptors \ files
      BY <2>1 DEF TypeOK, File, FreeFd
    <2>3. Service!Open(t)
      BY <1>10, <1>12, <2>1, <2>2 DEF Service!Open
    <2>. QED  BY <1>10, <2>3 DEF Service!Execute
  <1>13. CASE /\ r.fn = "CLOSE" /\ r.fd \in Descriptors /\ fdt[r.fd].kind = "file"
              /\ o.value = 0 /\ fdt' = [fdt EXCEPT ![r.fd] = FreeFd]
    <2>1. files' = files \ {r.fd} /\ r.fd \in files
      BY <1>13 DEF TypeOK, FreeFd
    <2>2. Service!Close(t)
      BY <1>10, <1>13, <2>1 DEF Service!Close
    <2>. QED  BY <1>10, <2>2 DEF Service!Execute
  <1>14. CASE r.fn \notin {"OPEN", "CLOSE"} /\ fdt' = fdt /\ o.value = 0
    <2>1. files' = files
      BY <1>14
    <2>2. Service!Other(t)
      BY <1>10, <1>14, <2>1 DEF Service!Other
    <2>. QED  BY <1>10, <2>2 DEF Service!Execute
  <1>. QED  BY <1>1, <1>3, <1>11, <1>12, <1>13, <1>14, OwnOutcome

(* The steps of main() are invisible.                                      *)
LEMMA MainService ==
  ASSUME NEW k, Clients = {k}, TypeOK, BatchInv, CallInv, Mapped(k), Mapped(k)', MainStep
  PROVE  UNCHANGED Service!vars
  <1>1. CASE Accept
    <2>1. UNCHANGED <<thread, net, call>>
      BY <1>1 DEF Accept, clientVars
    <2>2. PICK d \in LowestFd : fdt' = [fdt EXCEPT ![d] = Socket(accepted + 1)]
      BY <1>1 DEF Accept
    <2>3. d \in Descriptors /\ fdt[d] = FreeFd
      BY DEF LowestFd, FreeFds
    <2>4. \A e \in Descriptors : fdt'[e].kind = "file" <=> fdt[e].kind = "file"
      BY <2>2, <2>3 DEF TypeOK, Socket, FreeFd
    <2>. QED  BY <2>1, <2>4, QuietStep DEF Executed, Replied
  <1>2. CASE CreateThread
    <2>1. UNCHANGED <<fdt, net, call>> /\ main = "create"
          /\ thread' = [thread EXCEPT ![accepted].pc = "start"]
      BY <1>2 DEF CreateThread, clientVars
    <2>2. accepted \in Conns /\ thread[accepted].pc = "none"
      BY <2>1, NewestAccepted DEF CallInv
    <2>3. /\ thread'[accepted].pc = "start"
          /\ thread'[accepted].reply = thread[accepted].reply
          /\ \A c \in Conns \ {accepted} : thread'[c] = thread[c]
      BY <2>1, <2>2 DEF TypeOK, Thread
    <2>4. \A c \in Conns : /\ thread'[c].reply = thread[c].reply
                           /\ Executed(c)' <=> Executed(c)
                           /\ Replied(c)' <=> Replied(c)
      BY <2>2, <2>3 DEF Executed, Replied
    <2>. QED  BY <2>1, <2>4, QuietStep
  <1>3. CASE AcceptNoFd \/ Receive \/ (\E f \in Fields : Store(f)) \/ Join
    <2>1. UNCHANGED <<thread, net, call, fdt>>
      BY <1>3 DEF AcceptNoFd, Exit, Receive, Store, Join, clientVars
    <2>. QED  BY <2>1, QuietStep DEF Executed, Replied
  <1>. QED  BY <1>1, <1>2, <1>3 DEF MainStep

(* The steps of a handler other than the switch are invisible.             *)
LEMMA HandlerService ==
  ASSUME NEW k, Clients = {k}, MaxFaults = 0, TypeOK, BatchInv, CallInv,
         Mapped(k), Mapped(k)', NEW t \in Conns, HandlerStep(t), ~Execute(t)
  PROVE  UNCHANGED Service!vars
  <1>1. ASSUME NEW pc \in {"shutdown", "close", "cleanup", "done"},
               thread[t].pc \in {"send", "shutdown", "close", "cleanup"}, Goto(t, pc)
        PROVE  \A c \in Conns : /\ thread'[c].reply = thread[c].reply
                                /\ Executed(c)' <=> Executed(c)
                                /\ thread[t].pc # "send" \/ c # t => (Replied(c)' <=> Replied(c))
    <2>1. /\ thread'[t].pc = pc
          /\ thread'[t].reply = thread[t].reply
          /\ \A u \in Conns \ {t} : thread'[u] = thread[u]
      BY <1>1, GotoEffect
    <2>. QED  BY <1>1, <2>1 DEF Executed, Replied
  <1>2. CASE \E f \in Fields : Load(t, f)
    <2>1. PICK f \in Fields : thread' = [thread EXCEPT ![t].args[f] = argument[f]]
      BY <1>2 DEF Load
    <2>2. UNCHANGED <<fdt, net, call>>
      BY <1>2 DEF Load, clientVars
    <2>3. \A c \in Conns : /\ thread'[c].pc = thread[c].pc
                           /\ thread'[c].reply = thread[c].reply
      BY <2>1 DEF TypeOK, Thread
    <2>. QED  BY <2>2, <2>3, QuietStep DEF Executed, Replied
  <1>3. CASE SendReply(t)
    <2>1. /\ Running /\ thread[t].pc = "send" /\ UNCHANGED <<fdt, call>>
          /\ Goto(t, "shutdown") \/ Goto(t, "cleanup")
      BY <1>3 DEF SendReply, At, clientVars
    <2>2. call[k] = t
      BY <2>1, NewestThread DEF CallInv, Replied
    <2>3. \A c \in Conns : net'[c].request = net[c].request
      <3>1. \/ net' = net
            \/ \E i, a, b : net' = [net EXCEPT ![i].replies = a, ![i].reset = b]
        BY <1>3 DEF SendReply
      <3>2. ASSUME NEW i, NEW a, NEW b, NEW c \in Conns
            PROVE  [net EXCEPT ![i].replies = a, ![i].reset = b][c].request = net[c].request
        BY DEF TypeOK, Channel
      <3>3. CASE net' = net
        BY <3>3
      <3>4. CASE net' # net
        <4>1. PICK i, a, b : net' = [net EXCEPT ![i].replies = a, ![i].reset = b]
          BY <3>1, <3>4
        <4>2. ASSUME NEW c \in Conns
              PROVE  net'[c].request = net[c].request
          <5>1. [net EXCEPT ![i].replies = a, ![i].reset = b][c].request = net[c].request
            BY <3>2
          <5>. QED  BY <4>1, <5>1, Zenon
        <4>. QED  BY <4>2
      <3>. QED  BY <3>3, <3>4
    <2>. QED  BY <1>1, <2>1, <2>2, <2>3, QuietStep
  <1>4. CASE Shutdown(t)
    <2>1. /\ thread[t].pc = "shutdown" /\ UNCHANGED <<fdt, call>>
          /\ Goto(t, "close") \/ Goto(t, "cleanup")
      BY <1>4 DEF Shutdown, At, clientVars
    <2>2. \A c \in Conns : net'[c].request = net[c].request
      <3>1. \/ net' = net
            \/ \E i : net' = [net EXCEPT ![i].fin = TRUE]
        BY <1>4 DEF Shutdown
      <3>2. ASSUME NEW i, NEW c \in Conns
            PROVE  [net EXCEPT ![i].fin = TRUE][c].request = net[c].request
        BY DEF TypeOK, Channel
      <3>3. CASE net' = net
        BY <3>3
      <3>4. CASE net' # net
        <4>1. PICK i : net' = [net EXCEPT ![i].fin = TRUE]
          BY <3>1, <3>4
        <4>. QED  BY <3>2, <4>1
      <3>. QED  BY <3>3, <3>4
    <2>. QED  BY <1>1, <2>1, <2>2, QuietStep
  <1>5. CASE CloseSocket(t)
    <2>1. Running /\ thread[t].pc = "close" /\ UNCHANGED call /\ Goto(t, "cleanup")
      BY <1>5 DEF CloseSocket, At, clientVars
    <2>2. /\ thread[t].args["client_socket"] = t
          /\ fdOf[t] \in Descriptors /\ fdt[fdOf[t]] = Socket(t)
      BY <2>1, OwnSocket
    <2>3. fdt' = [fdt EXCEPT ![fdOf[t]] = FreeFd] /\ net' = NetAfter(fdt')
      BY <1>5, <2>2 DEF CloseSocket
    <2>4. \A d \in Descriptors : fdt'[d].kind = "file" <=> fdt[d].kind = "file"
      BY <2>2, <2>3 DEF TypeOK, Socket, FreeFd
    <2>5. \A c \in Conns : net'[c].request = net[c].request
      BY <2>3 DEF NetAfter, TypeOK, Channel
    <2>. QED  BY <1>1, <2>1, <2>4, <2>5, QuietStep
  <1>6. CASE Cleanup(t)
    <2>1. thread[t].pc = "cleanup" /\ UNCHANGED <<fdt, net, call>> /\ Goto(t, "done")
      BY <1>6 DEF Cleanup, At, clientVars
    <2>. QED  BY <1>1, <2>1, QuietStep
  <1>. QED  BY <1>2, <1>3, <1>4, <1>5, <1>6, NoHandlerFailure DEF HandlerStep

(***************************************************************************)
(* With one client, the server implements RpcService: each call is         *)
(* executed once and atomically, and returns what its execution gave.      *)
(***************************************************************************)
THEOREM Refinement ==
  ASSUME Sequential
  PROVE  Spec => ImplementsService
  <1>1. Init => Service!Init
    <2>. SUFFICES ASSUME Init
                  PROVE  Service!Init
      OBVIOUS
    <2>1. \A c \in Conns : net[c].request = NoRequest
      BY DEF Init
    <2>2. \A c \in Conns : StateOf(c) = "idle" /\ ValueOf(c) = 0
      BY <2>1 DEF StateOf, ValueOf
    <2>3. {d \in Descriptors : fdt[d].kind = "file"} = {}
      BY DEF Init, FreeFd
    <2>. QED  BY <2>1, <2>2, <2>3 DEF Service!Init
  <1>2. TypeOK /\ BatchInv /\ CallInv /\ CallInv' /\ [Next]_vars
          => [Service!Next]_(Service!vars)
    <2>. SUFFICES ASSUME TypeOK, BatchInv, CallInv, CallInv', [Next]_vars
                  PROVE  [Service!Next]_(Service!vars)
      OBVIOUS
    <2>1. PICK k : Clients = {k}
      BY DEF Sequential
    <2>2. Mapped(k) /\ Mapped(k)'
      BY <2>1, MappedNow, MappedNext
    <2>3. MaxFaults = 0 /\ MaxAbandons = 0 /\ ~CanFail
      BY DEF Sequential, CanFail, TypeOK
    <2>4. CASE Connect(k)
      BY <2>1, <2>2, <2>4, ConnectService
    <2>5. CASE ClientStep(k)
      BY <2>1, <2>2, <2>5, SendService, ReceiveReplyService, ReceiveNothingService
      DEF ClientStep, Service!Next
    <2>6. ~Abandon(k)
      BY <2>3 DEF Abandon, TypeOK
    <2>7. CASE MainStep
      BY <2>1, <2>2, <2>7, MainService
    <2>8. ~MainFails /\ ~Sigint
      BY <2>3 DEF MainFails, Sigint
    <2>9. ASSUME NEW t \in Conns, HandlerStep(t)
          PROVE  [Service!Next]_(Service!vars)
      BY <2>1, <2>2, <2>3, <2>9, ExecuteService, HandlerService DEF Service!Next
    <2>10. CASE UNCHANGED vars
      BY <2>2, <2>10, QuietStep DEF vars, Executed, Replied
    <2>. QED  BY <2>1, <2>4, <2>5, <2>6, <2>7, <2>8, <2>9, <2>10 DEF Next
  <1>. QED  BY <1>1, <1>2, TypeCorrect, Batches, Calls, PTL
            DEF Spec, ImplementsService, Service!Spec
=============================================================================
