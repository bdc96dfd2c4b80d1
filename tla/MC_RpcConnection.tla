------------------------- MODULE MC_RpcConnection -------------------------
(***************************************************************************)
(* Two RPC objects, three privileged ports of which another process holds  *)
(* one: two sockets of this process can hold the other two, so a bind may *)
(* fail because of a foreign port or because of the other object.         *)
(***************************************************************************)
EXTENDS RpcConnection, TLC

CONSTANTS o1, o2

MCObjects == {o1, o2}
MCPorts == {500, 501, 502}
MCForeignPorts == {500}
MCSymmetry == Permutations(MCObjects)

=============================================================================
