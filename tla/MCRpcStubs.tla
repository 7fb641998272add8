----------------------------- MODULE MCRpcStubs -----------------------------
(* Fault sets for the runs of RpcStubs. *)
EXTENDS RpcStubs

AllFaults  == {"malloc", "socket", "setsockopt", "connect", "send", "alloc", "recv",
               "close", "end"}
(* All but that of read()'s late allocation, which leaves a socket open.   *)
CallFaults == AllFaults \ {"alloc"}
=============================================================================
