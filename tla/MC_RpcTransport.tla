-------------------------- MODULE MC_RpcTransport --------------------------
(***************************************************************************)
(* Instantiates RpcTransport for TLC.  Replies are 5 or 10 bytes long and  *)
(* are sent in fragments of 5 or 10 bytes, so a reply is one fragment of   *)
(* 5, one of 10, or two of 5: reassembly of two fragments happens, and     *)
(* every fragment is longer than the 4-byte record mark, as the 24-byte    *)
(* reply header makes every real single-fragment reply.  The header itself *)
(* is scaled down to 2 bytes.  Which failures the environment may inject   *)
(* is chosen per run in the .cfg files.                                    *)
(***************************************************************************)
EXTENDS RpcTransport

MCPayloadLens == {5, 10}
MCFragLens == {5, 10}
MCGarbageLens == {1, 6}

\* Replies of up to 15 bytes: a reply may also be three fragments of 5, or
\* one of 10 and one of 5, so reassembly runs over more than two fragments.
MCLongPayloadLens == {5, 10, 15}

=============================================================================
