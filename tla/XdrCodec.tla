------------------------------ MODULE XdrCodec ------------------------------
(***************************************************************************)
(* One value through the codec of pack.py, as the library uses it: a       *)
(* caller builds an rtypes value and packs it (nfs3.py and mount.py build  *)
(* a fresh Packer per call and raise before any I/O when pack_X raises);   *)
(* the bytes cross the wire, where a faulty or hostile peer may change a   *)
(* word or cut the message short; a fresh Unpacker decodes them.           *)
(*                                                                         *)
(* Conforms is the reference: the XDR typing rule (RFC 4506 and the        *)
(* declarations quoted in rtypes.py) that every value of a type obeys.    *)
(***************************************************************************)
EXTENDS Nfs3, Portmap, RpcCall, FiniteSets

CONSTANTS
  Types,        \* the types the run puts through the codec
  EnumSamples,  \* the enum values sample values draw from
  BadEnum,      \* an out-of-range value a caller can pass for an enum
  ByteSamples,  \* the byte strings sample opaques draw from
  MaxDepth,     \* nesting of recursive lists in sample values
  FaultWords,   \* words a faulty peer may write over a word of the message
  Faults,       \* whether the wire may change or cut the message
  Calls,        \* NFSv3 procedure calls, with the caller's inputs
  PmapCalls,    \* PORTMAP dump and getport calls, with the portmapper's reply
  RpcCalls,     \* call headers, credentials and MOUNT paths request() packs
  Stamp         \* int(time.time()) & 0xffff when an AUTH_UNIX call is built

ASSUME Types \subseteq DOMAIN Desc /\ MaxDepth \in Nat /\ Faults \in BOOLEAN

VARIABLES
  ty,      \* the type being packed
  val,     \* the value the caller passed to pack_X
  enc,     \* the outcome of pack_X: bytes, or the exception raised
  wire,    \* the bytes the Unpacker is given
  res,     \* the outcome of unpack_X, or NULL before decoding
  fault,   \* whether the wire changed the message
  phase,   \* "idle", "raised" (the procedure raised before packing),
           \* "packed", "failed" (pack raised), "decoded"
  call     \* the procedure call that built val, or NULL for a sample;
           \* for a PORTMAP call, ty is its procedure and val the reply

vars == <<ty, val, enc, wire, res, fault, phase, call>>

----------------------------------------------------------------------------
(* The reference typing rule.                                              *)

\* WellFormed(t, v, exact): v has type t.  With exact FALSE neither the
\* length of a fixed-length opaque nor the fields of a union outside its
\* selected arm are checked: spec section 4 asks the encoders to reject
\* None in a required field, enum values outside their enum and over-long
\* variable-length data, and says nothing of a fixed opaque of the wrong
\* length (pack_fstring pads or cuts it to n bytes) or of attributes the
\* selected arm does not use (createhow3 carries verf and obj_attributes).
RECURSIVE WellFormed(_, _, _)
WellFormed(t, v, exact) ==
  LET d == Desc[t] IN
  CASE d.k = "uint"    -> v \in Nat
    [] d.k = "uint64"  -> v \in Nat \X Nat
    [] d.k = "int"     -> v \in Int
    [] d.k = "bool"    -> v \in {0, 1}
    [] d.k = "enum"    -> v \in d.vals
    [] d.k = "opaque"  -> v \notin {NULL, PyStr} /\ (d.max = NoMax \/ Len(v) <= d.max)
    [] d.k = "fopaque" -> v \notin {NULL, PyStr} /\ (exact => Len(v) = d.n)
    [] d.k = "struct"  -> /\ DOMAIN v = {d.fields[i][1] : i \in DOMAIN d.fields}
                          /\ \A i \in DOMAIN d.fields :
                               v[d.fields[i][1]] # NULL
                               /\ WellFormed(d.fields[i][2], v[d.fields[i][1]], exact)
    [] d.k = "list"    -> /\ d.max = NoMax \/ Len(v) <= d.max
                          /\ \A i \in DOMAIN v : WellFormed(d.e, v[i], exact)
    [] d.k = "union"   ->
         LET a == ArmOf(d, v[d.uf]) IN
         /\ DOMAIN v = UnionFields(d, a[1])
         /\ WellFormed(d.dt, v[d.uf], exact) /\ a # Bad
         /\ exact => \A f \in UnionFields(d, a[1]) \ {d.uf, a[1]} : v[f] = NULL
         /\ a # Void => v[a[1]] # NULL /\ WellFormed(a[2], v[a[1]], exact)

Conforms(t, v) == WellFormed(t, v, TRUE)
Checkable(t, v) == WellFormed(t, v, FALSE)

----------------------------------------------------------------------------
(* The values callers pass.  Default(t) is a conforming value; a struct   *)
(* sample changes one field of the default to a sample of that field, so  *)
(* every arm, list length and opaque length class appears, and so do None *)
(* in an arm, an out-of-range enum value and a list one over its bound.   *)

RECURSIVE Default(_)
Default(t) ==
  LET d == Desc[t] IN
  CASE d.k \in {"uint", "int"} -> 1
    [] d.k = "uint64"  -> <<0, 1>>
    [] d.k = "bool"    -> 0
    [] d.k = "enum"    -> CHOOSE x \in d.vals : \A y \in d.vals : x <= y
    [] d.k = "opaque"  -> <<>>
    [] d.k = "fopaque" -> [i \in 1..d.n |-> 1]
    [] d.k = "struct"  -> [f \in {d.fields[i][1] : i \in DOMAIN d.fields} |->
                             Default(d.fields[SelectInSeq(d.fields, LAMBDA g : g[1] = f)][2])]
    [] d.k = "list"    -> <<>>
    [] d.k = "union"   ->
         LET x == Default(d.dt)
             a == ArmOf(d, x)
         IN  [g \in UnionFields(d, a[1]) |->
                CASE g = d.uf -> x [] g = a[1] -> Default(a[2]) [] OTHER -> NULL]

RECURSIVE Samples(_, _)
Samples(t, n) ==
  LET d == Desc[t] IN
  CASE d.k \in {"uint", "int"} -> {1}
    [] d.k = "uint64"  -> {<<0, 1>>}
    [] d.k = "bool"    -> {0, 1}
    [] d.k = "enum"    -> (d.vals \cap EnumSamples) \cup {BadEnum}
    [] d.k = "opaque"  -> {s \in ByteSamples : d.max = NoMax \/ Len(s) <= d.max + 1}
    [] d.k = "fopaque" -> {Default(t)}
    [] d.k = "struct"  ->
         {Default(t)} \cup
           UNION {{[Default(t) EXCEPT ![d.fields[i][1]] = x] : x \in Samples(d.fields[i][2], n)}
                  : i \in DOMAIN d.fields}
    [] d.k = "list"    ->
         IF n = 0 THEN {<<>>}
         ELSE LET es == Samples(d.e, n - 1)
                  longest == IF d.max = NoMax THEN 1 ELSE d.max
              IN  {<<>>} \cup {<<e>> : e \in es}
                    \cup {[i \in 1..longest + 1 |-> e] : e \in es}
    [] d.k = "union"   ->
         UNION {LET a == ArmOf(d, x)
                    Obj(w) == [g \in UnionFields(d, a[1]) |->
                                 CASE g = d.uf -> x [] g = a[1] -> w [] OTHER -> NULL]
                IN  IF a \in {Void, Bad} THEN {Obj(NULL)}
                    ELSE {Obj(w) : w \in Samples(a[2], n) \cup {NULL}}
                : x \in Samples(d.dt, n)}

----------------------------------------------------------------------------
(* The codec in use.                                                       *)

Init ==
  /\ ty = "uint32" /\ val = 0
  /\ enc = Ok(<<>>) /\ wire = <<>> /\ res = NULL
  /\ fault = FALSE /\ phase = "idle" /\ call = NULL

\* A procedure builds a fresh Packer and packs its argument; an exception
\* leaves the call before anything is sent.
Encode(t, v) ==
  /\ phase = "idle"
  /\ ty' = t /\ val' = v
  /\ enc' = Pack(t, v)
  /\ wire' = enc'.out
  /\ phase' = IF enc'.err = "" THEN "packed" ELSE "failed"
  /\ call' = NULL
  /\ UNCHANGED <<res, fault>>

\* An NFSv3 procedure: fh_check and the procedure's own checks, the rtypes
\* argument, pack_X on a fresh Packer; nfs_request() sends only if all of
\* that returned.
NfsCall(c) ==
  LET b == BuildArgs(c) IN
  /\ phase = "idle"
  /\ call' = c
  /\ IF b.err # ""
     THEN /\ ty' = "" /\ val' = NULL /\ enc' = Fail(b.err) /\ wire' = <<>>
          /\ phase' = "raised"
     ELSE /\ ty' = b.ty /\ val' = b.val
          /\ enc' = Pack(b.ty, b.val)
          /\ wire' = enc'.out
          /\ phase' = IF enc'.err = "" THEN "packed" ELSE "failed"
  /\ UNCHANGED <<res, fault>>

\* A PORTMAP call: struct.pack of the arguments (struct.error leaves the
\* call before any I/O), then the portmapper's reply body on the wire.
PmapCall(c) ==
  LET a == PmapArgs(c) IN
  /\ phase = "idle"
  /\ call' = c /\ ty' = c.proc /\ val' = c.reply /\ enc' = a
  /\ wire' = CASE a.err # ""       -> <<>>
               [] c.proc = "dump" -> PmapList(c.reply)
               [] OTHER           -> BE4(c.reply)
  /\ phase' = IF a.err # "" THEN "raised" ELSE "packed"
  /\ UNCHANGED <<res, fault>>

\* The getport() calls of the driver src/releaselock.py: the MOUNT v3 port
\* (Mount.program, Mount.program_version) and the NLM v4 port, both over
\* TCP, the default protocol; mnt and nlm are the ports the portmapper
\* answers.  The driver then ignores the NLM answer and uses 4045.
MOUNT_PROGRAM == 100005
MOUNT_V3 == 3
NLM_PROG == 100021
NLM_VERS == 4
ReleaseLocksGetports(mnt, nlm) ==
  {[proc |-> "getport", prog |-> MOUNT_PROGRAM, vers |-> MOUNT_V3, prot |-> 6, reply |-> mnt],
   [proc |-> "getport", prog |-> NLM_PROG, vers |-> NLM_VERS, prot |-> 6, reply |-> nlm]}

\* request() builds the call message; "RPC unknown auth method" or a
\* struct.error leaves before send().  The reply is RpcTransport's.
RpcSend(c) ==
  LET m == CallMessage(c, Stamp) IN
  /\ phase = "idle"
  /\ call' = c /\ ty' = "rpc_call" /\ val' = c /\ enc' = m /\ wire' = m.out
  /\ phase' = IF m.err # "" THEN "raised" ELSE "packed"
  /\ UNCHANGED <<res, fault>>

\* A faulty or hostile peer writes w over the i-th word of the message.
Corrupt(i, w) ==
  /\ Faults /\ phase = "packed" /\ ~fault
  /\ SubSeq(wire, 4 * i - 3, 4 * i) # BE4(w)
  /\ wire' = SubSeq(wire, 1, 4 * i - 4) \o BE4(w) \o SubSeq(wire, 4 * i + 1, Len(wire))
  /\ fault' = TRUE
  /\ UNCHANGED <<ty, val, enc, res, phase, call>>

\* The message ends after its first k words.
Truncate(k) ==
  /\ Faults /\ phase = "packed" /\ ~fault
  /\ 4 * k < Len(wire)
  /\ wire' = SubSeq(wire, 1, 4 * k)
  /\ fault' = TRUE
  /\ UNCHANGED <<ty, val, enc, res, phase, call>>

\* A fresh Unpacker over the received bytes runs unpack_X.
Decode ==
  /\ phase = "packed" /\ ty # "rpc_call"
  /\ res' = IF ty \in DOMAIN Desc THEN Unpack(ty, wire, 0) ELSE PmapParse(call, wire)
  /\ phase' = "decoded"
  /\ UNCHANGED <<ty, val, enc, wire, fault, call>>

Done ==
  /\ phase \in {"raised", "failed", "decoded"} \/ (phase = "packed" /\ ty = "rpc_call")
  /\ UNCHANGED vars

Next ==
  \/ \E t \in Types : \E v \in Samples(t, MaxDepth) : Encode(t, v)
  \/ \E c \in Calls : NfsCall(c)
  \/ \E c \in PmapCalls : PmapCall(c)
  \/ \E c \in RpcCalls : RpcSend(c)
  \/ \E i \in 1..(Len(wire) \div 4), w \in FaultWords : Corrupt(i, w)
  \/ \E k \in 0..(Len(wire) \div 4) : Truncate(k)
  \/ Decode
  \/ Done

Spec == Init /\ [][Next]_vars

----------------------------------------------------------------------------
(* Properties.                                                             *)

\* decode(encode(v)) == v (spec section 8): a value of the type that
\* pack_X wrote, and the wire left alone, decodes through unpack_X to the
\* same value and uses up exactly the bytes pack_X wrote.
RoundTrip ==
  phase = "decoded" /\ ~fault /\ ty \in DOMAIN Desc /\ Conforms(ty, val) => res = Got(val, Len(enc.out))

\* The encoders check what spec section 4 says they check: pack_X accepts
\* every value of its type, and raises for None in a required field or
\* arm, an enum value outside its enum, a str where bytes are expected,
\* an opaque or list longer than its bound.
EncoderValidates ==
  phase \in {"packed", "failed", "decoded"} /\ ty \in DOMAIN Desc =>
    /\ Conforms(ty, val) => enc.err = ""
    /\ ~Checkable(ty, val) => enc.err # ""

\* Whatever bytes arrive, unpack_X returns only values of its type: an
\* out-of-range enum, an over-long opaque or a list longer than its bound
\* raises instead of reaching the caller.
DecodedConforms ==
  phase = "decoded" /\ ty \in DOMAIN Desc /\ res.err = "" => Conforms(ty, res.val)

\* The argument errors of spec section 7, as the spec states them: a file
\* or directory handle that is not a byte string, an enum value outside its
\* enum (a time_how flag, the create mode, stable_how), a mknod type other
\* than CHR, BLK, SOCK and FIFO; for getport, a number struct cannot pack;
\* an auth flavor other than AUTH_NONE and AUTH_SYS (spec section 6).
Handles(c) == {c.fh} \cup (IF c.proc \in {"rename", "link"} THEN {c.fh2} ELSE {})
ArgError(c) ==
  IF "xid" \in DOMAIN c THEN c.auth # NULL /\ c.auth.flavor \notin {0, 1}
  ELSE IF c.proc \in {"dump", "getport"}
  THEN c.proc = "getport" /\ \E x \in {c.prog, c.vers, c.prot} : x < 0
  ELSE
  \/ \E h \in Handles(c) : h.t # "bytes"
  \/ "attrs" \in DOMAIN c /\ ~({c.attrs.atime_flag, c.attrs.mtime_flag} \subseteq TIME_HOW)
  \/ c.proc = "create" /\ c.mode \notin CREATEMODE3
  \/ c.proc = "write" /\ c.stable \notin STABLE_HOW
  \/ c.proc = "mknod" /\ c.ftype \notin {NF3CHR, NF3BLK, NF3SOCK, NF3FIFO}

\* Argument errors are raised before any I/O (spec section 7): whether
\* fh_check, the procedure's own check (rename's second handle, mknod's
\* type, get_sattr3's flags) or the packer catches it, a call with an
\* argument error never reaches nfs_request().
ArgErrorsBeforeIO ==
  call # NULL /\ ArgError(call) => phase \in {"raised", "failed"}

\* dump() and getport() return what the portmapper sent: the mappings in
\* order, protocols named and repeats suppressed (spec section 4.4), or
\* the port it answered.
PortmapReadsReply ==
  phase = "decoded" /\ ty \in {"dump", "getport"} /\ ~fault =>
    res = Got(IF ty = "dump" THEN Materialised(val) ELSE val, 0)

\* request() sends the RFC 5531 call message: the record mark, the header,
\* the credential as an opaque_auth whose AUTH_SYS body is an authsys_parms
\* with aux_gids=[0] sent as the empty array (spec section 3), the
\* AUTH_NULL verifier, and a MOUNT path as an XDR string.  XDR strings are
\* ASCII (RFC 4506 section 4.11); the code does not reject other text.
CallEncodes ==
  phase = "packed" /\ ty = "rpc_call" /\ ~fault /\ CallStringsAscii(call) =>
    enc.out = RfcCall(call, Stamp)

=============================================================================
