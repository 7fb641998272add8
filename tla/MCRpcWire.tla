------------------------------ MODULE MCRpcWire ------------------------------
(* Values for the runs of RpcWire: the sizes are those of 64-bit Linux but *)
(* for struct stat, which is two bytes long.                               *)
EXTENDS RpcWire

(* "//", "//a", "//bb"; "cc"; and these with "d" and "/".                  *)
RemotePaths == {<<47, 47>>, <<47, 47, 97>>, <<47, 47, 98, 98>>}
MixedPaths  == RemotePaths \cup {<<99, 99>>}
AllPaths    == MixedPaths \cup {<<100>>, <<47>>}
=============================================================================
