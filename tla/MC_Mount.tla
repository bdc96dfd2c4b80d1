------------------------------ MODULE MC_Mount ------------------------------
(***************************************************************************)
(* Two paths, one exported to this client and one refused, and four RPCs: *)
(* enough for mnt, a second mnt, umnt and a call in between, and for a     *)
(* timed-out call whose reply is read by the call after it.               *)
(***************************************************************************)
EXTENDS Mount

CONSTANTS p1, p2

MCPaths == {p1, p2}
MCExported == {p1}

=============================================================================
