----------------------------- MODULE MCRpcServer -----------------------------
(* Symmetry for the runs of RpcServer that check no liveness property.      *)
EXTENDS RpcServerImplements, TLC

ClientSymmetry == Permutations(Clients)
=============================================================================
