# TLA+ models of pyNfsClient

This directory holds TLA+ specifications of the Python NFSv3 client library
in `src/pyNfsClient/`, and the TLC configurations that check them.
`src/releaselock.py` is a small driver built on the library.
Every definition follows the source. `PROJECT.json` maps each definition to
the lines it models, lists the runs, the mutants and the findings, and
records the hazards of the code.

## The system

| Part | Source | State | Operations |
|---|---|---|---|
| RPC transport | `rpc.py` `request`, `recv` | the socket, the TCP byte stream, the reassembly buffers | send a call; read record marks and fragment bodies; check the 24-byte reply header; the exception paths |
| Connection lifecycle and registry | `rpc.py` `connect`, `disconnect`, `disconnect_all`; `__init__.py` `release_all_rpc` | `self.client` of every object, the class-wide list `RPC.connections` | create a socket, bind a random port in 500-1023 in a loop, connect, register; close; close every registered socket |
| MOUNT v3 client | `mount.py` | `self.path` | `null`, `mnt`, `umnt`, `export` |
| PORTMAP v2 client (`Portmap`) | `portmap.py` | none | `null`, `dump` (list parser with dedup), `getport` |
| NFSv3 client (`Nfs3`) | `nfs3.py` | none | 22 procedures: validate, pack, `request`, unpack |
| XDR codec (`Xdr`, `XdrCodec`) | `pack.py` | the Packer and Unpacker buffers | pack and unpack for every RFC 1813 type, including the linked lists that are decoded through `unpack_array` with length at most 1 |
| Data | `rtypes.py`, `const.py`, `utils.py` | none | record classes, constant tables, Python 2/3 helpers |
| Driver | `releaselock.py` | none | connect to the portmapper, `getport` of MOUNT and NLM, one call to a custom NLM program |

How the parts interact:
- Portmap, Mount and NFSv3 are subclasses of `RPC`. Each of their
  operations is one `request()` on the object's own socket.
- `request()` never compares the reply's XID with the call's. So if a call
  times out, its reply stays on the stream, and the next call on that
  connection reads it as its own.
- `release_all_rpc()` may run on another thread. It walks
  `RPC.connections` and closes whatever socket each object holds at that
  moment.

### Hard behaviours and the properties that capture them

- **Transport.**
  - Fragments arrive split by TCP into reads of any size.
  - The body loop of `recv` counts the 4 record-mark bytes against the
    fragment length.
  - A partial header read is discarded.
  - Peer EOF makes `recv` return `b""` forever.
  - Timeouts, rejections and send errors are swallowed by `request()`.
  - `send()` may write only part of a call, and its count is not checked.
  - A reply may reach the socket in pieces, so the timeout can fire in
    the middle of a fragment.
  - Another thread's `release_all_rpc()` may close the socket mid-call.

  A correct transport returns exactly the body of the reply to its own
  call (`ReplyMatchesCall`). It raises instead of returning bytes that are
  not that body (`NoSilentFailure`). And it always returns
  (`Termination`). Seen from its callers, a connection is the service of
  `RpcService`: one call at a time, each returning its own accepted answer
  or an error (`RefinesService`).
- **Connections.**
  - The bind loop is `while True` with a bare `except`.
  - Registration happens after `connect()`, which may raise.
  - The release iterates a list that other threads append to.

  A correct release closes every registered socket
  (`ReleaseClosesRegistered`) and frees every port the process holds
  (`ReleaseFreesPorts`). Every `connect()` gets past its bind loop
  (`ConnectTerminates`).
- **Mount.**
  - `mnt` remembers the path on `MNT3_OK`.
  - `umnt` sends UMNT but never forgets the path.
  - A stale reply can be read by the next call.
  - `release_all_rpc()` can close the socket between or during calls, and
    the caller then connects again.

  The client's `self.path` should agree with the server's mount list
  (`MountStateAgrees`). It should name only a path the server granted
  (`PathWasGranted`). Every call returns (`CallsReturn`), whether its
  reply arrives, times out or the socket is closed under it.

- **Codec and arguments.**
  - Tagged unions, bool-switched "present" unions and linked lists
    decoded through bounded arrays.
  - Enum tables checked on both sides.
  - Handles that are `str` or `None`, `get_sattr3`'s `int(None)`, and
    `str_to_bytes`.
  - PORTMAP's own slicing parser.

  Conforming values round-trip (`RoundTrip`). The encoders check what
  spec 4 says (`EncoderValidates`). Decoders return only conforming
  values (`DecodedConforms`). Argument errors never reach the wire
  (`ArgErrorsBeforeIO`). `dump` and `getport` return what the
  portmapper sent (`PortmapReadsReply`). The call message, credential
  and MOUNT path are the RFC encoding (`CallEncodes`).

## Modules

### `RpcTransport`: one connection, byte-level

The bytes are abstract tokens that record their origin. `Mark(c,f,i)` is
byte `i` of the record mark of fragment `f` of reply `c`. `Byte(c,k)` is
payload byte `k`. `Arg(c)` is the argument bytes of call `c`.

- Four tokens decode to a length and a last bit (`MarkValues`) only when
  they are one genuine mark. Any other 4 bytes decode to an arbitrary
  value from `GarbageLens` x BOOLEAN, which is what reading payload as a
  header gives.
- The 4-byte record mark is kept at 4 tokens, because the off-by-one at
  `rpc.py:179` depends on it.
- The 24-byte reply header is scaled to `ReplyHdrLen = 2`.

The client's variables:
- `pc` is `idle`, `hdr` (the header loop, `rpc.py:171-172`) or `body` (the
  body loop, `rpc.py:179-180`).
- `frag` is `rpc_response` without its mark.
- `data` is the payload reassembled so far.
- `result` is what `request()` returned, with a ghost `path` that says
  whether it came from the success path or the except clause.

The actions:
- `Request`: build and send the call. A send on a closed connection, or
  to a peer that has gone, returns the argument bytes.
- `RecvHeader` and `RecvBody`: one turn of each loop.
- `RecvReturn`: a fragment is complete. Go on to the next fragment, or
  check the header and return.
- `RecvTimeout`: the socket timeout fires and both except clauses run.
- `RecvEof`: the spin after peer close.
- `Disconnect`.

The environment is an in-order server:
- `ServerReply` picks a payload length and a fragmentation.
- `ServerLose`, `ServerClose` and `Rejects` are the failures, each enabled
  by a constant per run.
- With `PartialSends`, `Request` may send only part of a call. The server
  then holds an incomplete record (`torn`). It still answers the complete
  calls before it, but it receives no later call.
- With `SlowNetwork`, a reply reaches the client's buffer (`stream`) in
  two pieces, cut anywhere (`Arrive`). The rest waits in `transit` until
  `Deliver` moves it. The timeout fires while `stream` is empty, so it can
  cut a fragment.
- With `ReleaseThread`, `release_all_rpc()` on another thread closes the
  socket at any step (`ReleaseClose`). The next `recv` then raises, and
  `request()` returns what it has gathered (`RecvClosed`).

### `RpcService`: what a connection promises

The abstract specification of one connection.
- `busy`: a call is outstanding.
- `ncalls`: the number of calls made.
- `result`: what the last call returned.
- `answer[c]`: the server's answer to call `c`, an accept flag and a body,
  given at most once.

The actions:
- `Call` starts a call.
- `Refuse` is a call that fails at once.
- `Answer(c)` is the server answering a call that has been made.
- `Return` ends the current call. It returns its own answer's body when
  that answer was accepted, and an error otherwise.

`RpcTransport` instantiates it as `Service` with a refinement mapping:
- `busy` is `pc # "idle"`.
- `answer` is `Answers`, the reply the server chose for each call, cut
  after its header.
- `Values` is every token sequence.

`RefinesService` is `Service!Spec`, checked as a `PROPERTY`. It holds
only where the byte stream stays in frame: with full reads and no timeouts
(`rpc_inorder`). A timeout or a short read lets a call return another
call's bytes, and the violation runs show it.

### `RpcConnection`: sockets of several objects and the release thread

- `pc[o]` is the step of object `o`'s `connect()`.
- `client[o]` is its socket: a generation, a bound port and an open flag.
- `conns` is `RPC.connections`.
- `relPc` and `relIdx` are the release thread's position in its
  `for` loop.

The actions:
- `Connect`: `socket()`. The old socket is freed by reference counting.
- `BindOk` and `BindFail`: one turn of the bind loop, for each port `p`.
  Bind fails when the process is unprivileged, when the port is held by
  another process or by another socket of this process, or when the
  socket is closed.
- `ConnectSocket`: may raise, and always raises on a closed socket.
- `Register`.
- `Disconnect`.
- `ReleaseStart`, `ReleaseStep` and `ReleaseEnd`: the loop of
  `disconnect_all`.

The ghosts `snap` and `held` remember, at the start of a release, the
registered open sockets and all the bound open sockets of idle objects.

### `Mount`: the mount protocol over a connection

- `path` is `self.path`.
- `pending` is the call `request()` waits for.
- `inbound` and `wire` are the calls and replies in transit.
- `mounted` is the server's mount list for this client.
- `granted` is a ghost: every path the server ever answered `MNT3_OK`
  for.
- `sock` is `self.client`: open, or closed by `release_all_rpc()`.
- `conns` numbers the sockets the object has opened. Each call in
  `inbound` and each reply in `wire` carries the socket it belongs to.

A reply is one unit here; `RpcTransport` covers the bytes.

The actions:
- `Mnt`, `Umnt` and `Export`. `Export` stands for both `null` and
  `export`, neither of which changes state.
- `Receive`: read the next reply, whichever call it answers. `MntReturn`
  decides what `mnt` makes of that reply (`MntSucceeds` follows
  `unpack_mountres3`).
- `Timeout`.
- `Release`: another thread's `release_all_rpc()` closes the socket.
- `RecvFails`: a call waiting in `recv()` on the closed socket fails at
  once, and `request()` returns `b''`.
- `Reconnect`: the caller's `connect()` between calls. The new socket has
  an empty stream.
- `Send` on a closed socket fails in `send()`. `request()` then returns
  the call's own argument bytes, and the call never reaches the server.

The server handles calls in order (`Serve`). It handles a call even
after that call's socket was closed, but the reply is lost.

### `Xdr`: the codec of `pack.py` as operators

`pack.py` is generated: every `pack_X`/`unpack_X` follows one of a few
templates over the xdrlib primitives. `Xdr` models the primitives and the
templates once, and describes each type by a descriptor.

- Bytes are integers 0..255; `BE4` is `struct.pack('>L')`. A result is
  `Ok(bytes)`, `Got(value, position)` or an exception name (`Fail`,
  `Raise`).
- Primitives: `pack_uint` raises on a negative value; `pack_bool` writes
  1 for any true value and `unpack_bool` reads any non-zero word as true;
  `pack_uint64` is `struct.pack('>Q')`, a pair `<<hi, lo>>` here;
  `pack_fopaque` writes `s[:n]` and zero-pads, and `unpack_fopaque` skips
  the padding without checking it.
- Descriptors (`Desc`): `Prim`, `Enum`, `Opaque`, `Fopaque`, `Struct`
  (fields in order), `List` (an array with its length bound: 1 for the
  linked lists `entry3`, `groups`, `exports`) and `Union` (the attribute
  read for packing, the one written by unpacking, the discriminant type,
  the `==` arms in order, and the `else`).
- `Pack(t, v)` is the template: a struct raises `TypeError` on a `None`
  field before packing it, an enum raises on a value outside its table, a
  bounded array raises before packing, a union packs the discriminant
  and then the first arm whose case matches. `Unpack(t, b, p)` mirrors it,
  with one operator per template (`UnpackOpaque`, `UnpackStruct`,
  `UnpackList`, `UnpackUnion`): the array length is checked only after
  every item is read, and a union builds an object whose other arm
  attributes are `None` (`NULL`).
- The constants are those of `const.py` that the templates check.

### `Nfs3`: the argument side of every NFSv3 procedure

`nfs3.py` checks its inputs, builds an `rtypes` argument and packs it
before `nfs_request()` does any I/O. `Nfs3` has one operator per
procedure, and `BuildArgs(c)` runs `fh_check` and then the procedure.
- A caller's input is a tagged Python value: `Bytes(s)`, `Str(s)` or
  `None`. `AsObj` is what an `rtypes` field then holds: the bytes,
  `PyStr` for a `str`, or `NULL`.
- `FhCheck` is the decorator. A truthy first handle that is not `bytes`
  raises `TypeError`; `None` and `b''` pass.
- `GetSattr3` is `get_sattr3`. A flag outside `time_how` raises
  `ValueError`. `SET_TO_CLIENT_TIME` with a time of `None` calls `int(None)`,
  which raises `TypeError`. `get_sattr3` defaults the times to 0, but
  `setattr`, `create`, `mkdir` and `mknod` default them to `None` and
  pass them on.
- `StrToBytes` is `utils.str_to_bytes` on Python 3, `str(x).encode()`.
  For a `bytes` argument that is the bytes of its repr (`ReprBytes`, with
  the quote choice and the escapes of `bytes.__repr__`). `None` becomes
  `b'None'`.
- The procedures' own checks are there too: `rename` checks its second
  handle, `link` does not, and `mknod` raises `ValueError` for a type
  other than CHR, BLK, SOCK and FIFO (`MknodWhat`).
- `readlink`, `fsstat`, `fsinfo` and `pathconf` build a bare `fhandle3`,
  as `getattr` does. `remove` and `rmdir` build a `diropargs3`, as
  `lookup` does. They share those operators.

### `Portmap`: the hand-written PORTMAP parsers

`portmap.py` does not use `pack.py`. It packs its arguments with
`struct.pack` (`StructPack`: `struct.error` for a negative value) and
parses the reply body itself.
- `Dump` is `dump()`. A body of at most four bytes is an empty list.
  Otherwise `DumpFrom` loops while the value-follows word is exactly
  `00 00 00 01`; `DumpLoop` is one turn: unpack 16 bytes (`struct.error`
  if fewer remain), name the protocol (`Protocol`), append unless an equal
  dict is already there, read the next word with Python slicing
  (`PySlice`).
- `Getport` is `struct.unpack('!L', body)`, which needs exactly four
  bytes.
- `PmapList` and `Materialised` are the reference. `PmapList` is the
  pmaplist of RFC 1833. `Materialised` is spec 4.4's reading of it:
  entries in order, protocols 6 and 17 named, later repeats suppressed.

### `RpcCall`: the call message `request()` builds

`request()` packs the call with `struct`, not with `pack.py`.
- `CallMessage` builds it: the header, then the credential
  (`Credential`), the AUTH_NULL verifier and the argument bytes, behind
  one last-fragment mark (`RecordMark`).
- `Credential` gives AUTH_NULL only for `auth=None`. Flavor 1 gives
  AUTH_UNIX, and any other dict raises, flavor 0 included.
- `AuthUnixBody` packs the stamp, the machine name by hand, uid and gid,
  and the aux gids. A list holding only 0 is sent as the empty list.
- `PackStrByHand` is the hand packing of the machine name and of the
  MOUNT path in `mnt` and `umnt`. The length and the padding come from
  `len(s)`, a character count, and the bytes from `Utf8(s)`.
- `RfcCall` is the reference. It is the RFC 5531 call with an
  `authsys_parms` body, RFC 4506 strings, and spec 3's rule for
  `aux_gids=[0]`.

### `XdrCodec`: one value through the codec

`ty` and `val` are the type and the value a caller passes; `enc` is the
outcome of `Pack`; `wire` is what reaches the Unpacker; `res` is the
outcome of `Unpack`. `call` is the procedure call that built the value,
or `NULL` for a sample.
- `Encode` chooses a sample value. `wccdata3res` and `create3res` have no
  `pack_X` in `pack.py`: the library only decodes them. For these two,
  `Pack` stands for the server's XDR encoder, so that `unpack_X` has
  bytes to read. `EncoderValidates` says nothing of library code there.
  `unpack_wccdata3res` returns a dict with only the `resok` or `resfail`
  key. The union's `keep` flag gives that shape.
- `NfsCall(c)` runs `BuildArgs` and, unless it raised (phase `raised`),
  `Pack`.
- `PmapCall(c)` packs a PORTMAP call's arguments and puts the
  portmapper's reply on the wire.
- `RpcSend(c)` builds a call message. Its reply is `RpcTransport`'s, so
  the run stops there.
- `Corrupt` and `Truncate` are a faulty peer (one change per message).
- `Decode` runs `Unpack`, or for a PORTMAP call `Dump` or `Getport`.

The reference is `WellFormed`, the XDR typing rule of the declarations
in `rtypes.py`, written independently of the templates. It comes in two
strengths:
- `Conforms` is the full rule: a value that decodes back to itself.
- `Checkable` is what spec 4 asks an encoder to reject: `None` in a
  required field, an enum outside its table, a `str` for bytes, an
  over-long opaque or list. It does not check the length of a fixed
  opaque, because `pack_fstring` pads or cuts it. It does not check the
  fields of a union outside its selected arm, which the encoder ignores.

Samples (`Samples`) take a default value and change one field at a time:
every union arm, `None` in an arm or a field, an enum value outside its
table, an opaque or list one element over its bound, lists of length 0, 1
and bound+1 nested `MaxDepth` deep.

## Runs

| Run | Expect | Checks | Shows |
|---|---|---|---|
| `rpc_inorder` | pass | `TypeOK`, `ReplyMatchesCall`, `RefinesService` | full reads, no timeout: every successful call returns its own reply body, over one to three fragments and four calls, with rejections, peer close and disconnects enabled; the byte-level client implements `RpcService` |
| `rpc_timeouts` | pass | `Termination` | the timeout makes every call return, with a silent or lossy server, a reply cut by the network inside a fragment, a call `send()` wrote only in part, and a release that closes the socket mid-call |
| `rpc_short_reads` | violation | `ReplyMatchesCall` | a 2-byte read of a 5-byte fragment ends the body loop, and the body is truncated |
| `rpc_peer_close` | violation | `Termination` | `recv` spins forever after peer close |
| `rpc_rejected` | violation | `NoSilentFailure` | a rejected call returns the raw reply instead of raising |
| `conn_release` | pass | `TypeOK`, `ReleaseClosesRegistered` | the release closes every socket registered at its start, whatever other threads do |
| `conn_port_leak` | violation | `ReleaseFreesPorts` | a socket whose `connect()` raised keeps its privileged port through a release |
| `conn_bind_race` | violation | `ConnectTerminates` | a release closes a reconnecting object's new socket, and the bind loop spins forever |
| `mount_ok` | pass | `TypeOK`, `CallsReturn` | every mount call returns, even with stale replies, timeouts and the socket closed by `release_all_rpc()` and reopened by `connect()` |
| `mount_lifecycle` | violation | `MountStateAgrees` | after `umnt` the client still holds the path the server removed |
| `mount_late_reply` | violation | `PathWasGranted` | `request()` never compares XIDs, so `mnt` of a refused path takes a late `MNT3_OK` and remembers that path |
| `xdr_codec` | pass | `RoundTrip`, `EncoderValidates`, `DecodedConforms`, `ArgErrorsBeforeIO`, `PortmapReadsReply`, `CallEncodes` | over 36 NFSv3 and MOUNT types and sampled calls of all 21 NFSv3 procedures and of `dump` and `getport`: conforming values round-trip; `pack_X` accepts every conforming value and rejects what spec 4 says it rejects; `unpack_X` returns only conforming values whatever the wire does; an argument error of spec 7 never gets past the packer; `dump` and `getport` return what the portmapper sent; `request()` sends the RFC 5531 call with its AUTH_SYS credential and the MOUNT path as an XDR string |

The `conn_bind_race` configuration with `Privileged = FALSE` and
`MaxReleases = 0` violates `ConnectTerminates` in 4 states. That is the
unprivileged caller of spec 4.3, which shares the finding of that run.

Every property of a passing run has a mutant in `PROJECT.json`: a
plausible bug in one mapped definition, defined next to it, that TLC finds.
- A record mark that keeps its last-fragment bit.
- A reply buffer not reset to `b""` after the send.
- Keeping only the last fragment.
- Retrying after a timeout.
- An off-by-one port range.
- A release loop that stops one entry early.
- `umnt` clearing the path before building its request.
- An XID check that waits for the matching reply and never discards a
  stale one.
- Fixed opaques padded to the next multiple of four even when aligned.
- An enum packed without the membership check.
- An enum unpacked without the membership check.
- `mknod` building a `mknoddata3` for any type.
- `dump` appending repeated entries.
- A hand-packed string padded by `4 - len % 4`, a whole word too many
  when the length is a multiple of four.

## Bounds, and why they are enough

- **Transport.** `MaxCalls = 3` gives a call, a timed-out call, and the
  call that reads its reply. Payloads of 5 or 10 bytes in fragments of 5
  or 10 give one-fragment and two-fragment replies. Every benign fragment
  is longer than the 4-byte mark, as every real reply is, so the
  off-by-one shows only through short reads. `GarbageLens = {1, 6}`
  covers a desynchronised stream decoding to a short fragment and to a
  long one. `rpc_timeouts` has `MaxCalls = 2`: a timeout inside a
  fragment and the call that reads the rest of it out of frame. It has
  621780 states and takes about 35 s. `rpc_inorder` uses the larger
  instance: `MaxCalls = 4` and payloads of 5, 10 or 15 bytes
  (`MCLongPayloadLens`), so a reply is also reassembled from three
  fragments and the refinement is checked over four calls with
  rejections, closes and disconnects mixed in (349413 states, about 20 s).
- **Connections.** Two objects and three ports, one of them held by
  another process, so a bind can fail because of a foreign process, the
  other object, or a closed socket. Two connects per object give a
  reconnect. Two releases give a release that overlaps a reconnect.
- **XDR.** `mknod3args` (all four `mknoddata3` arms, `sattr3` with its
  nested set-or-not unions), `createhow3`, `wccstat3`, `rename3res`,
  `readdir3res` (nested `entry3` lists), `exports` (lists inside lists)
  and `mountres3_ok`. Enum samples 0..7 and -1, byte strings of length 0,
  1, 5 and 65 (one over the file-handle bound), list depth 2, and fault
  words 0, 2 and 3 (a false, a non-boolean and an unknown discriminant).
  The run now lists 36 types, every argument and result type the
  procedures use.
- **Calls.** Each NFSv3 procedure is called with every handle in
  {`b'\x01'`, `b''`, `'a'`, `None`}. The names are a `str` and a `bytes`.
  There are four attribute sets: server time, client time with a time,
  client time without one, and a flag outside `time_how`. Create modes
  0, 2 and 3, stable 0 and 3, and mknod types 1, 3, 4, 6, 7 and 9 are
  called. Verifiers are the `'0'` default, eight bytes and one byte.
  PORTMAP dumps have 0 to 3 entries, with a repeat, TCP and UDP, and two
  unnamed protocols; `getport` is called for MOUNT with a negative
  protocol, and with the two calls of `releaselock.py` (MOUNT v3 and NLM
  v4 over TCP).
- **RPC calls.** MOUNT paths cover each length class modulo 4 and one
  non-ASCII path. The credentials are no auth; AUTH_UNIX with aux gids
  `[0]`, `[]` and `[5, 6]`; a non-ASCII machine name; a uid of -1; and
  dicts with flavors 2 and 0. The run has 164944 states and takes about
  30 s.
- **Mount.** Two paths, one exported and one refused. Four calls (five in
  `mount_ok`) cover mnt, a second mnt, umnt and a call after a timeout.
  `mount_ok` also allows one reconnect (`MaxConnects = 2`). That is
  enough for a call whose answer is owed on the old socket while the next
  call runs on the new one (73998 states).

Objects and paths are model values. Symmetry is not used, because the
liveness properties make it unsound.

## Fairness

- **Transport.** `request()` runs on the caller's thread and never blocks
  on anything but the socket, so `WF` on the client's steps. The server is
  assumed to answer the calls it has not lost (`WF` on `ServerReply`).
  Bytes in flight are eventually delivered (`WF` on `Deliver`), as TCP
  does. The timeout fires whenever nothing arrives, which is part of the
  client's `WF`.
- **Connections.** `WF` on each object's steps and on the release loop.
  `randint` draws every port again and again, so a port that keeps
  becoming free is eventually drawn: `SF` on `BindOk(o, p)` for each `p`.
- **Mount.** `WF` on `Receive` and `Serve`, and on `RecvFails`: `recv()`
  on a closed socket raises at once, so the code guarantees this step.
  `Release` and `Reconnect` carry no fairness, because the other thread
  and the caller may never take them.

## Not modelled, and the plan

The plan, in order:

1. **A violation run for the string length mismatch** (`mount.py:29`,
   `rpc.py:57`), and one for the READDIR verifier, once a run can be
   spared for them.
2. **Mount return values.** Record what `umnt` returns, which is
   `MNT3_OK` even after a timeout or on a closed socket (`mount.py:54`).
   Also record what `mnt` returns after a failed send: `len(path)` read
   as the status (`mount.py:37`). `Mount` already reaches both paths.
3. **Session composition** (`Session`): Portmap `getport` feeding Mount
   and then NFSv3 calls over their own connections, with
   `release_all_rpc` interleaved.

What the codec model shows that the code does differently from spec.md:
- `pack_mountres3` reads `data.fhs_status`, but `rtypes.mountres3` stores
  it as `status` (`rtypes.py:1660`), so packing a `mountres3` always
  raises `AttributeError`. With `mountres3` in `Types`, `EncoderValidates`
  fails at once. The library only unpacks this type, so the run leaves it
  out.
- Every bool-switched union (`post_op_attr`, `pre_op_attr`,
  `post_op_fh3`, `sattrguard3`) accepts any non-zero discriminant as
  true, because `unpack_bool` is `bool(unpack_int())`. A corrupted word
  of 2 is decoded as attributes present. Spec 4.2 says a bad
  discriminant is rejected.
- The `case -1` arms of `wccstat3` and `rename3res` are dead:
  `pack_nfsstat3` and `unpack_nfsstat3` reject -1 first.
- Fixed opaques are truncated or zero-padded, never rejected. In the
  `xdr_codec` run, `NfsCall` sends readdir's default `cookie_verf='0'` as
  `b'0'` and seven zero bytes. Create's default `verf='0'` is a `str`, so
  an EXCLUSIVE create with the default verifier raises `TypeError`. This
  is why `RoundTrip` covers only conforming values, and why
  `EncoderValidates` does not require a rejection here: spec 4 asks for
  none.
- `str_to_bytes` turns `bytes` into their repr. Spec scenario 5 continues a
  READDIR with the verifier V the server returned. `readdir(cookie_verf=V)`
  sends the first eight bytes of `b"b'..."` instead, so the server answers
  `NFS3ERR_BAD_COOKIE`. For the same reason, `write(content=b'abc')` writes
  `b'abc'` with its quotes, six bytes.
- `setattr`, `create`, `mkdir` and `mknod` take microseconds
  (`atime_us`, `mtime_us`). They pass them as `get_sattr3`'s nanoseconds.
- `dump()` returns the entries read so far when the reply is cut at an
  entry boundary. After a timeout it returns an empty list, because
  `request()` returns `b''`. Spec 7 says a short read raises.
- `mnt`, `umnt` and the AUTH_UNIX machine name take their XDR length and
  padding from `len(str)`. For a non-ASCII path or host name that does not
  match the UTF-8 bytes sent. `CallEncodes` is stated for ASCII strings,
  which are the only ones XDR allows.
- An `auth` dict with flavor 0 (AUTH_NONE in spec 6) raises "RPC unknown
  auth method"; only `auth=None` gives AUTH_NULL.
- `dump()` names every protocol other than TCP and UDP `'unknown'` and
  loses the number. Two registrations that differ only in such a protocol
  become one entry.
- A long linked list is decoded by recursion, one Python frame per
  entry, and a directory of some hundreds of entries raises
  `RecursionError`. TLC bounds the nesting; this stays a hazard.

Left out on purpose:
- `NFSv3.null()` and `Portmap.null()`: a bare `request()`, which is
  `RpcTransport`'s.
- `str_to_bytes` on Python 2, and the `LONG` alias.
- Logging.
- The name tables of `const.py` and the `__repr__` of `rtypes.py`, which only format values.
- Of `releaselock.py`, the custom NLM call: its argument is four raw
  address bytes, not an XDR value. Its two `getport()` calls are modelled
  (`ReleaseLocksGetports` in `XdrCodec`, sampled in `xdr_codec`), and
  its two `connect()`s are those of `RpcConnection`.
