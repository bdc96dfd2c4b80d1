-------------------------------- MODULE Nfs3 --------------------------------
(***************************************************************************)
(* The argument side of the NFSv3 client, src/pyNfsClient/nfs3.py: how    *)
(* each procedure checks its inputs and builds the rtypes argument that it *)
(* then packs with nfs_pro_v3Packer, before nfs_request() does any I/O.    *)
(*                                                                         *)
(* A caller's input is a tagged Python value: Bytes(s), Str(s) or None.    *)
(* What a procedure hands to an rtypes constructor is the Xdr view of it: *)
(* a byte sequence, PyStr for a str, NULL for None.  str_to_bytes is      *)
(* modelled by what it does on Python 3: str(x).encode(), which for a     *)
(* bytes object is the bytes of its repr.                                  *)
(***************************************************************************)
EXTENDS Xdr

Bytes(s) == [t |-> "bytes", v |-> s]
Str(s) == [t |-> "str", v |-> s]      \* s: the code points of an ASCII str
None == [t |-> "none", v |-> <<>>]

\* What an rtypes field holds when the input is passed through unchanged.
AsObj(x) == CASE x.t = "bytes" -> x.v [] x.t = "str" -> PyStr [] OTHER -> NULL

\* Python truth of a str, bytes or None.
Truthy(x) == x.t # "none" /\ x.v # <<>>

\* repr() of one byte inside b'...': printable ASCII as itself, the quote
\* in use and the backslash escaped, \t \n \r by name, the rest as \xhh.
HexDigit(d) == IF d < 10 THEN 48 + d ELSE 87 + d
ReprByte(b, q) ==
  CASE b = q \/ b = 92 -> <<92, b>>
    [] b = 9  -> <<92, 116>>
    [] b = 10 -> <<92, 110>>
    [] b = 13 -> <<92, 114>>
    [] b \in 32..126 -> <<b>>
    [] OTHER -> <<92, 120, HexDigit(b \div 16), HexDigit(b % 16)>>

\* bytes.__repr__: b'...', or b"..." when the bytes hold a ' and no ".
ReprBytes(s) ==
  LET q == IF 39 \in Range(s) /\ 34 \notin Range(s) THEN 34 ELSE 39
  IN  <<98, q>> \o FlattenSeq([i \in DOMAIN s |-> ReprByte(s[i], q)]) \o <<q>>

\* utils.str_to_bytes on Python 3: str(x).encode().  An ASCII str encodes
\* to its code points; None to b'None'; bytes to their repr.
StrToBytes(x) ==
  CASE x.t = "str"   -> x.v
    [] x.t = "none"  -> <<78, 111, 110, 101>>
    [] x.t = "bytes" -> ReprBytes(x.v)

----------------------------------------------------------------------------
(* Building an argument: Built(type, value), or the exception raised.      *)

Built(t, v) == [err |-> "", ty |-> t, val |-> v]
Raised(e) == [err |-> e, ty |-> "", val |-> NULL]

\* fh_check: the first positional argument after self, when truthy, must be
\* bytes; otherwise TypeError before the procedure runs.
FhCheck(fh) == Truthy(fh) /\ fh.t # "bytes"

Fh3(fh) == [data |-> AsObj(fh)]
Dirop(dh, name) == [dir |-> Fh3(dh), name |-> StrToBytes(name)]
SetU(x) == IF x = NULL THEN [set |-> 0, val |-> NULL] ELSE [set |-> 1, val |-> x]

\* get_sattr3's set_time for one of atime, mtime: int(None) raises TypeError
\* when the flag asks for client time and no time was given.
SetTime(flag, s, ns) ==
  IF flag # SET_TO_CLIENT_TIME THEN [set |-> flag, time |-> NULL]
  ELSE IF s = NULL \/ ns = NULL THEN NULL
  ELSE [set |-> flag, time |-> [seconds |-> s, nseconds |-> ns]]

\* NFSv3.get_sattr3: both flags are checked against time_how (ValueError),
\* then the sattr3 is built field by field.  a carries the keyword
\* arguments mode, uid, gid, size, atime_flag, atime_s, atime_ns,
\* mtime_flag, mtime_s, mtime_ns.
GetSattr3(a) ==
  LET at == SetTime(a.atime_flag, a.atime_s, a.atime_ns)
      mt == SetTime(a.mtime_flag, a.mtime_s, a.mtime_ns)
  IN  CASE a.atime_flag \notin TIME_HOW \/ a.mtime_flag \notin TIME_HOW -> Raised("ValueError")
        [] at = NULL \/ mt = NULL -> Raised("TypeError")
        [] OTHER -> Built("sattr3", [mode |-> SetU(a.mode), uid |-> SetU(a.uid),
                                     gid |-> SetU(a.gid), size |-> SetU(a.size),
                                     atime |-> at, mtime |-> mt])

\* The argument b built from get_sattr3's outcome s, unless get_sattr3 raised.
WithAttrs(s, b) == IF s.err # "" THEN s ELSE b

\* Mutant: mknod builds a mknoddata3 for any ftype, leaving the arm void.
MknodWhatAnyType(c, attrs) ==
  [type |-> c.ftype, device |-> NULL, pipe_attributes |-> NULL]

\* mknod: CHR and BLK carry device data, SOCK and FIFO the attributes,
\* anything else is ValueError.
MknodWhat(c, attrs) ==
  CASE c.ftype \in {NF3CHR, NF3BLK} ->
         [type |-> c.ftype, pipe_attributes |-> NULL,
          device |-> [dev_attributes |-> attrs,
                      spec |-> [major |-> c.major, minor |-> c.minor]]]
    [] c.ftype \in {NF3SOCK, NF3FIFO} ->
         [type |-> c.ftype, device |-> NULL, pipe_attributes |-> attrs]
    [] OTHER -> NULL

\* One operator per procedure, each after its fh_check: the first handle
\* (c.fh) has already passed FhCheck.
Getattr(c) == Built("fhandle3", AsObj(c.fh))   \* also fsstat, fsinfo,
                                                \* pathconf
\* readlink packs its handle as getattr does.
Readlink(c) == Getattr(c)
Setattr(c) ==
  LET s == GetSattr3(c.attrs) IN
  WithAttrs(s, Built("setattr3args", [object |-> Fh3(c.fh), new_attributes |-> s.val,
                                      guard |-> [check |-> c.check, ctime |-> c.ctime]]))
Lookup(c) == Built("diropargs3", Dirop(c.fh, c.name))
\* remove and rmdir pack the same diropargs3 as lookup.
NfsRemove(c) == Lookup(c)
Rmdir(c) == Lookup(c)
Access(c) == Built("access3args", [object |-> Fh3(c.fh), access |-> c.access])
Read(c) == Built("read3args", [file |-> Fh3(c.fh), offset |-> c.offset, count |-> c.count])
Write(c) ==
  Built("write3args", [file |-> Fh3(c.fh), offset |-> c.offset, count |-> c.count,
                       stable |-> c.stable, data |-> StrToBytes(c.content)])
Create(c) ==
  LET s == GetSattr3(c.attrs) IN
  WithAttrs(s, Built("create3args", [where |-> Dirop(c.fh, c.name),
                                     how |-> [mode |-> c.mode, obj_attributes |-> s.val,
                                              verf |-> AsObj(c.verf)]]))
\* mkdir and mknod pass size=None to get_sattr3.
Mkdir(c) ==
  LET s == GetSattr3([c.attrs EXCEPT !.size = NULL]) IN
  WithAttrs(s, Built("mkdir3args", [where |-> Dirop(c.fh, c.name), attributes |-> s.val]))
Symlink(c) ==
  LET s == GetSattr3([mode |-> NULL, uid |-> NULL, gid |-> NULL, size |-> NULL,
                      atime_flag |-> DONT_CHANGE, atime_s |-> 0, atime_ns |-> 0,
                      mtime_flag |-> DONT_CHANGE, mtime_s |-> 0, mtime_ns |-> 0]) IN
  WithAttrs(s, Built("symlink3args", [where |-> Dirop(c.fh, c.name),
                                      symlink |-> [symlink_attributes |-> s.val,
                                                   symlink_data |-> StrToBytes(c.target)]]))
Mknod(c) ==
  LET s == GetSattr3([c.attrs EXCEPT !.size = NULL])
      what == MknodWhat(c, s.val)
  IN  WithAttrs(s, IF what = NULL THEN Raised("ValueError")
                   ELSE Built("mknod3args", [where |-> Dirop(c.fh, c.name), what |-> what]))
\* rename checks its second handle itself: it must be bytes.
Rename(c) ==
  IF c.fh2.t # "bytes" THEN Raised("TypeError")
  ELSE Built("rename3args", [from_v |-> Dirop(c.fh, c.name), to |-> Dirop(c.fh2, c.name2)])
\* link does not check its second handle.
Link(c) == Built("link3args", [file |-> Fh3(c.fh), link |-> Dirop(c.fh2, c.name)])
Readdir(c) ==
  Built("readdir3args", [dir |-> Fh3(c.fh), cookie |-> c.cookie,
                         cookieverf |-> StrToBytes(c.verf), count |-> c.count])
Readdirplus(c) ==
  Built("readdirplus3args", [dir |-> Fh3(c.fh), cookie |-> c.cookie,
                             cookieverf |-> StrToBytes(c.verf),
                             dircount |-> c.dircount, maxcount |-> c.maxcount])
Commit(c) == Built("commit3args", [file |-> Fh3(c.fh), offset |-> c.offset, count |-> c.count])

\* The call [proc |-> p, fh |-> first handle, ...] through fh_check and
\* the procedure's own checks.
BuildArgs(c) ==
  IF FhCheck(c.fh) THEN Raised("TypeError")
  ELSE CASE c.proc \in {"getattr", "fsstat", "fsinfo", "pathconf"} -> Getattr(c)
         [] c.proc = "readlink" -> Readlink(c)
         [] c.proc = "setattr" -> Setattr(c)
         [] c.proc = "lookup" -> Lookup(c)
         [] c.proc = "remove" -> NfsRemove(c)
         [] c.proc = "rmdir" -> Rmdir(c)
         [] c.proc = "access" -> Access(c)
         [] c.proc = "read" -> Read(c)
         [] c.proc = "write" -> Write(c)
         [] c.proc = "create" -> Create(c)
         [] c.proc = "mkdir" -> Mkdir(c)
         [] c.proc = "symlink" -> Symlink(c)
         [] c.proc = "mknod" -> Mknod(c)
         [] c.proc = "rename" -> Rename(c)
         [] c.proc = "link" -> Link(c)
         [] c.proc = "readdir" -> Readdir(c)
         [] c.proc = "readdirplus" -> Readdirplus(c)
         [] c.proc = "commit" -> Commit(c)

\* The result type each procedure unpacks its reply with.
ResType ==
  [getattr |-> "getattr3res", setattr |-> "wccdata3res", lookup |-> "lookup3res",
   access |-> "access3res", readlink |-> "readlink3res", read |-> "read3res",
   write |-> "write3res", create |-> "create3res", mkdir |-> "create3res",
   symlink |-> "create3res", mknod |-> "create3res", remove |-> "wccdata3res",
   rmdir |-> "wccdata3res", rename |-> "rename3res", link |-> "link3res",
   readdir |-> "readdir3res", readdirplus |-> "readdirplus3res",
   fsstat |-> "fsstat3res", fsinfo |-> "fsinfo3res", pathconf |-> "pathconf3res",
   commit |-> "commit3res"]

=============================================================================
