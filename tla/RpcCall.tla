------------------------------ MODULE RpcCall ------------------------------
(***************************************************************************)
(* The call message RPC.request() builds (src/pyNfsClient/rpc.py) and the  *)
(* dirpath argument mount.py packs by hand: the record mark, the call      *)
(* header, the credential (AUTH_NULL, or AUTH_UNIX built field by field)   *)
(* and the verifier, then the procedure's argument bytes.                  *)
(*                                                                         *)
(* A str is the sequence of its code points (below 2048 here); encode()   *)
(* is UTF-8.  A call is [xid, prog, vers, proc, auth, args]: auth is NULL  *)
(* or [flavor, machine_name, uid, gid, aux_gid]; args is <<>> or a path    *)
(* mnt() and umnt() pack.                                                  *)
(***************************************************************************)
EXTENDS Xdr

\* str.encode(): UTF-8 of code points below 2048.
Utf8(s) ==
  FlattenSeq([i \in DOMAIN s |->
                IF s[i] < 128 THEN <<s[i]>> ELSE <<192 + s[i] \div 64, 128 + (s[i] % 64)>>])

\* Mutant: the pad computed as 4 - len % 4, a whole word when len is a
\* multiple of 4.
PackStrByHandPadFour(s) == BE4(Len(s)) \o Utf8(s) \o [i \in 1..(4 - (Len(s) % 4)) |-> 0]

\* A string packed by hand: length and padding both come from len(s), the
\* number of characters, while the body is s.encode().
PackStrByHand(s) == BE4(Len(s)) \o Utf8(s) \o [i \in 1..((4 - (Len(s) % 4)) % 4) |-> 0]

\* struct.pack('!L', 0x80000000 + len(proto)): the last-fragment mark.
RecordMark(n) == [BE4(n) EXCEPT ![1] = @ + 128]

\* The AUTH_UNIX body: stamp, machine name, uid, gid, then the aux gids,
\* where a list holding only 0 is sent as the empty list.
AuthUnixBody(a, stamp) ==
  LET ids == StructPack(<<stamp, a.uid, a.gid>>)
      gids == IF a.aux_gid = <<0>> THEN StructPack(<<0>>)
              ELSE StructPack(<<Len(a.aux_gid)>> \o a.aux_gid)
  IN  IF ids.err # "" \/ gids.err # "" THEN Fail("struct.error")
      ELSE Ok(SubSeq(ids.out, 1, 4) \o PackStrByHand(a.machine_name)
              \o SubSeq(ids.out, 5, 12) \o gids.out)

\* The credential: AUTH_NULL when no auth is given, AUTH_UNIX for flavor 1,
\* and "RPC unknown auth method" for any other dict, flavor 0 included.
Credential(a, stamp) ==
  CASE a = NULL      -> Ok(BE4(0) \o BE4(0))
    [] a.flavor = 1  -> LET b == AuthUnixBody(a, stamp) IN
                        IF b.err # "" THEN b ELSE Ok(BE4(1) \o BE4(Len(b.out)) \o b.out)
    [] OTHER         -> Fail("Exception")

\* The procedure's argument: mnt() and umnt() pack the path by hand.
CallArgs(c) == IF c.args = <<>> THEN <<>> ELSE PackStrByHand(c.args)

\* request(): header, credential, AUTH_NULL verifier, the argument bytes,
\* all behind one record mark.  Raising here leaves before send().
CallMessage(c, stamp) ==
  LET hdr == StructPack(<<c.xid, 0, 2, c.prog, c.vers, c.proc>>)
      cred == Credential(c.auth, stamp)
      body == hdr.out \o cred.out \o BE4(0) \o BE4(0) \o CallArgs(c)
  IN  CASE hdr.err # ""  -> hdr
        [] cred.err # "" -> cred
        [] OTHER         -> Ok(RecordMark(Len(body)) \o body)

----------------------------------------------------------------------------
(* The reference: RFC 5531 call message, RFC 4506 strings and opaques,    *)
(* and the aux-gid rule of spec section 3.                                 *)

XdrString(s) == PackString(Utf8(s))

RfcCredential(a, stamp) ==
  IF a = NULL THEN BE4(0) \o BE4(0)
  ELSE LET gids == IF a.aux_gid = <<0>> THEN <<>> ELSE a.aux_gid
           parms == BE4(stamp) \o XdrString(a.machine_name) \o BE4(a.uid) \o BE4(a.gid)
                    \o BE4(Len(gids)) \o FlattenSeq([i \in DOMAIN gids |-> BE4(gids[i])])
       IN  BE4(1) \o PackString(parms)

RfcCall(c, stamp) ==
  LET body == BE4(c.xid) \o BE4(0) \o BE4(2) \o BE4(c.prog) \o BE4(c.vers) \o BE4(c.proc)
              \o RfcCredential(c.auth, stamp) \o BE4(0) \o BE4(0)
              \o (IF c.args = <<>> THEN <<>> ELSE XdrString(c.args))
  IN  RecordMark(Len(body)) \o body

\* An XDR string holds ASCII characters only (RFC 4506 section 4.11).
IsAscii(s) == \A i \in DOMAIN s : s[i] < 128
CallStringsAscii(c) ==
  IsAscii(c.args) /\ (c.auth # NULL => IsAscii(c.auth.machine_name))

=============================================================================
