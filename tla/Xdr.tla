-------------------------------- MODULE Xdr --------------------------------
(***************************************************************************)
(* The XDR codec of pyNfsClient: src/pyNfsClient/pack.py, the rpcgen-style *)
(* nfs_pro_v3Packer and nfs_pro_v3Unpacker built on the standard library's *)
(* xdrlib, with the constants of src/pyNfsClient/const.py.                 *)
(*                                                                         *)
(* A wire buffer is a sequence of byte values.  The primitives are those   *)
(* of xdrlib that pack.py aliases (big-endian 32-bit words, 64-bit words,  *)
(* zero-padded opaques).  Every generated pack_X / unpack_X pair follows   *)
(* one of four templates (struct, union, enum, bounded array); each type   *)
(* is a descriptor, and Pack and Unpack are the templates, recursive as    *)
(* the generated code is (unpack_entry3 calls itself for nextentry).       *)
(*                                                                         *)
(* A Python value is modelled as: an int, a byte sequence, a record whose  *)
(* fields are the attributes of the rtypes object (or the keys of the      *)
(* dict unpack returns with data_format='json'), a sequence for a list,    *)
(* and NULL for None.  A bool is 0 or 1, which Python compares equal to    *)
(* False and True.  TLC integers are 32-bit: every uint the model packs is *)
(* below 2^31, and a uint64 is the pair <<high word, low word>>.           *)
(***************************************************************************)
EXTENDS Integers, Sequences, SequencesExt

CONSTANTS
  NULL,   \* Python's None
  PyStr   \* a (short) Python str where the code expects bytes

NoMax == -1     \* an array or opaque declared without a bound: <>

\* Outcome of a pack_X call: the bytes written, or the exception raised.
Ok(o) == [err |-> "", out |-> o]
Fail(e) == [err |-> e, out |-> <<>>]
\* Outcome of an unpack_X call: the value and the reader position after it.
Got(v, p) == [err |-> "", val |-> v, pos |-> p]
Raise(e) == [err |-> e, val |-> NULL, pos |-> 0]

----------------------------------------------------------------------------
(* xdrlib primitives, aliased by the Packer and Unpacker classes.          *)

\* struct.pack('>L' or '>l', x): four bytes, most significant first (the
\* floored \div and % give two's complement for a negative x).
BE4(x) == [i \in 1..4 |-> (x \div 256^(4 - i)) % 256]

\* struct.unpack('>l') and '>L' of one word.
Int4(w) == (w[1] - (IF w[1] >= 128 THEN 256 ELSE 0)) * 2^24
             + w[2] * 2^16 + w[3] * 2^8 + w[4]
Uint4(w) == w[1] * 2^24 + w[2] * 2^16 + w[3] * 2^8 + w[4]

\* pack_uint ('>L' raises struct.error, re-raised as ConversionError, for
\* a negative value); pack_int; pack_bool writes 1 for any truthy value.
PackUint(x) == IF x >= 0 THEN Ok(BE4(x)) ELSE Fail("ConversionError")
PackInt(x) == Ok(BE4(x))
PackBool(x) == Ok(BE4(IF x = 0 THEN 0 ELSE 1))

\* pack_uint64 overrides the alias with struct.pack('>Q', x).
PackUint64(x) ==
  IF x[1] >= 0 /\ x[2] >= 0 THEN Ok(BE4(x[1]) \o BE4(x[2]))
  ELSE Fail("ConversionError")

\* pack_fstring(n, s): s[:n], then zero bytes up to the next multiple of 4
\* of n (a shorter s is zero-filled to n bytes as well).
\* Mutant: the pad computed as 4 - n % 4, a whole word too many when n is
\* a multiple of 4.
PackFstringPadFour(n, s) ==
  LET data == SubSeq(s, 1, IF Len(s) < n THEN Len(s) ELSE n)
  IN  data \o [i \in 1..(n - Len(data) + 4 - (n % 4)) |-> 0]

PackFstring(n, s) ==
  LET m == ((n + 3) \div 4) * 4
      data == SubSeq(s, 1, IF Len(s) < n THEN Len(s) ELSE n)
  IN  data \o [i \in 1..(m - Len(data)) |-> 0]

\* pack_string / pack_opaque: the length, then the padded bytes.
PackString(s) == BE4(Len(s)) \o PackFstring(Len(s), s)

\* struct.pack('!L...') of uint32 values: struct.error for a value outside
\* 0..2^32-1 (the samples stay below 2^31, where TLC's integers end).
StructPack(xs) ==
  IF \E i \in DOMAIN xs : xs[i] < 0 THEN Fail("struct.error")
  ELSE Ok(FlattenSeq([i \in DOMAIN xs |-> BE4(xs[i])]))

\* The word at reader position p (bytes consumed so far).
WordAt(b, p) == SubSeq(b, p + 1, p + 4)

\* unpack_uint, unpack_int: EOFError when fewer than 4 bytes remain.
UnpackUint(b, p) ==
  IF p + 4 > Len(b) THEN Raise("EOFError") ELSE Got(Uint4(WordAt(b, p)), p + 4)
UnpackInt(b, p) ==
  IF p + 4 > Len(b) THEN Raise("EOFError") ELSE Got(Int4(WordAt(b, p)), p + 4)

\* unpack_bool is bool(unpack_int()): any word but 0 reads as True.
UnpackBool(b, p) ==
  IF p + 4 > Len(b) THEN Raise("EOFError")
  ELSE Got(IF Int4(WordAt(b, p)) = 0 THEN 0 ELSE 1, p + 4)

\* unpack_uint64: eight bytes, '>Q'.
UnpackUint64(b, p) ==
  IF p + 8 > Len(b) THEN Raise("EOFError")
  ELSE Got(<<Uint4(WordAt(b, p)), Uint4(WordAt(b, p + 4))>>, p + 8)

\* unpack_fstring(n): the padded extent must fit; the padding is skipped
\* without being looked at.
UnpackFstring(n, b, p) ==
  LET j == p + ((n + 3) \div 4) * 4
  IN  IF j > Len(b) THEN Raise("EOFError") ELSE Got(SubSeq(b, p + 1, p + n), j)

\* unpack_string / unpack_opaque.
UnpackString(b, p) ==
  LET n == UnpackUint(b, p)
  IN  IF n.err # "" THEN n ELSE UnpackFstring(n.val, b, n.pos)

----------------------------------------------------------------------------
(* Type descriptors: the shape every generated pack_X / unpack_X pair has. *)

Prim(k) == [k |-> k]
Enum(vals) == [k |-> "enum", vals |-> vals]
Opaque(max) == [k |-> "opaque", max |-> max]
Fopaque(n) == [k |-> "fopaque", n |-> n]
\* A struct: its fields, in the order the code packs them.
Struct(fs) == [k |-> "struct", fields |-> fs]
\* A bounded array; "T *next" and "T x<1>" both become array<1> in rpcgen.
List(e, max) == [k |-> "list", e |-> e, max |-> max]
\* A union: the discriminant's attribute as pack_X reads it (pf) and as
\* unpack_X sets it (uf), its type, the arms tried in order (a set of
\* discriminant values and the arm taken), and the final else.  keep is
\* FALSE for an rtypes object, which has every arm attribute.
Union(pf, uf, dt, arms, other) ==
  [k |-> "union", pf |-> pf, uf |-> uf, dt |-> dt, arms |-> arms, other |-> other,
   keep |-> FALSE]
\* An arm: the attribute and type of its value.  Void is "pass"; Bad is
\* "raise XDRError('bad switch=...')".
Arm(f, t) == <<f, t>>
Void == <<"", "">>
Bad == <<"!", "">>

----------------------------------------------------------------------------
(* Constants of const.py.                                                  *)

NFS3_FHSIZE == 64
NFS3_MNTPATHLEN == 1024
NFS3_MNTNAMLEN == 255
NFS3_VERFSIZE == 8   \* NFS3_COOKIEVERFSIZE, _CREATEVERFSIZE, _WRITEVERFSIZE

MOUNTSTAT3 == {0, 1, 2, 5, 13, 20, 22, 63, 10004, 10006}
NFSSTAT3 == {0, 1, 2, 5, 6, 13, 17, 18, 19, 20, 21, 22, 27, 28, 30, 31, 63,
             66, 69, 70, 71, 10001, 10002, 10003, 10004, 10005, 10006,
             10007, 10008}
NFS3_OK == 0
MNT3_OK == 0
\* ftype3: NF3REG = 1 .. NF3FIFO = 7
NF3BLK == 3
NF3CHR == 4
NF3SOCK == 6
NF3FIFO == 7
FTYPE3 == 1..7
\* time_how: DONT_CHANGE, SET_TO_SERVER_TIME, SET_TO_CLIENT_TIME
DONT_CHANGE == 0
SET_TO_CLIENT_TIME == 2
TIME_HOW == 0..2
\* createmode3: UNCHECKED, GUARDED, EXCLUSIVE
CREATEMODE3 == 0..2
\* stable_how: UNSTABLE, DATA_SYNC, FILE_SYNC
STABLE_HOW == 0..2

----------------------------------------------------------------------------
(* The generated types, one descriptor each.                               *)

Filename3 == Opaque(NoMax)                       \* pack_filename3
Nfspath3 == Opaque(NoMax)                        \* pack_nfspath3
Cookieverf3 == Fopaque(NFS3_VERFSIZE)            \* pack_cookieverf3 (and
                                                 \* createverf3, writeverf3)
Nfsstat3 == Enum(NFSSTAT3)                       \* pack_nfsstat3
Ftype3 == Enum(FTYPE3)                           \* pack_ftype3
Specdata3 == Struct(<<<<"major", "uint32">>, <<"minor", "uint32">>>>)
\* nfs_fh3.data, opaque data<NFS3_FHSIZE>.
Fh_data == Opaque(NFS3_FHSIZE)
Nfs_fh3 == Struct(<<<<"data", "fh_data">>>>)
Nfstime3 == Struct(<<<<"seconds", "uint32">>, <<"nseconds", "uint32">>>>)
Fattr3 ==
  Struct(<<<<"type", "ftype3">>, <<"mode", "uint32">>, <<"nlink", "uint32">>,
           <<"uid", "uint32">>, <<"gid", "uint32">>, <<"size", "uint64">>,
           <<"used", "uint64">>, <<"rdev", "specdata3">>, <<"fsid", "uint64">>,
           <<"fileid", "uint64">>, <<"atime", "nfstime3">>,
           <<"mtime", "nfstime3">>, <<"ctime", "nfstime3">>>>)
\* The switch(bool present) unions: TRUE, FALSE, else bad switch.
Present(f, t) ==
  Union("present", "present", "bool", <<<<{1}, Arm(f, t)>>, <<{0}, Void>>>>, Bad)
Post_op_attr == Present("attributes", "fattr3")
Wcc_attr == Struct(<<<<"size", "uint64">>, <<"mtime", "nfstime3">>,
                     <<"ctime", "nfstime3">>>>)
Pre_op_attr == Present("attributes", "wcc_attr")
Wcc_data == Struct(<<<<"before", "pre_op_attr">>, <<"after", "post_op_attr">>>>)
Post_op_fh3 == Present("handle", "nfs_fh3")
\* set_uint32, set_uint64: TRUE carries the value, anything else is void.
Set_uint32 == Union("set", "set", "bool", <<<<{1}, Arm("val", "uint32")>>>>, Void)
Set_uint64 == Union("set", "set", "bool", <<<<{1}, Arm("val", "uint64")>>>>, Void)
Time_how == Enum(TIME_HOW)
Set_time ==
  Union("set", "set", "time_how",
        <<<<{SET_TO_CLIENT_TIME}, Arm("time", "nfstime3")>>>>, Void)
Sattr3 ==
  Struct(<<<<"mode", "set_uint32">>, <<"uid", "set_uint32">>,
           <<"gid", "set_uint32">>, <<"size", "set_uint64">>,
           <<"atime", "set_time">>, <<"mtime", "set_time">>>>)
Diropargs3 == Struct(<<<<"dir", "nfs_fh3">>, <<"name", "filename3">>>>)
\* wccstat3, rename3res, link3res: status -1 is void, any other carries
\* the wcc data.
MinusOneVoid(f, t) == Union("status", "status", "nfsstat3", <<<<{-1}, Void>>>>, Arm(f, t))
Wccstat3 == MinusOneVoid("wcc", "wcc_data")
Sattrguard3 == Present("ctime", "nfstime3")
Createmode3 == Enum(CREATEMODE3)
Createhow3 ==
  Union("mode", "mode", "createmode3",
        <<<<{0, 1}, Arm("obj_attributes", "sattr3")>>,
          <<{2}, Arm("verf", "createverf3")>>>>, Bad)
Devicedata3 == Struct(<<<<"dev_attributes", "sattr3">>, <<"spec", "specdata3">>>>)
Mknoddata3 ==
  Union("type", "type", "ftype3",
        <<<<{NF3CHR, NF3BLK}, Arm("device", "devicedata3")>>,
          <<{NF3SOCK, NF3FIFO}, Arm("pipe_attributes", "sattr3")>>>>, Void)
Mknod3args == Struct(<<<<"where", "diropargs3">>, <<"what", "mknoddata3">>>>)
Rename3wcc == Struct(<<<<"fromdir_wcc", "wcc_data">>, <<"todir_wcc", "wcc_data">>>>)
Rename3res == MinusOneVoid("res", "rename3wcc")
Entry3 ==
  Struct(<<<<"fileid", "uint64">>, <<"name", "filename3">>,
           <<"cookie", "uint64">>, <<"nextentry", "entry3_list">>>>)
Dirlist3 == Struct(<<<<"entries", "entry3_list">>, <<"eof", "bool">>>>)
Readdir3resok ==
  Struct(<<<<"dir_attributes", "post_op_attr">>, <<"cookieverf", "cookieverf3">>,
           <<"reply", "dirlist3">>>>)
Readdir3res ==
  Union("status", "status", "nfsstat3",
        <<<<{NFS3_OK}, Arm("resok", "readdir3resok")>>>>,
        Arm("resfail", "post_op_attr"))
Dirpath == Opaque(NFS3_MNTPATHLEN)
Name == Opaque(NFS3_MNTNAMLEN)
Fhandle3 == Opaque(NFS3_FHSIZE)
Mountstat3 == Enum(MOUNTSTAT3)
Mountres3_ok == Struct(<<<<"fhandle", "fhandle3">>, <<"auth_flavors", "int_list">>>>)
\* pack_mountres3 reads data.fhs_status; rtypes.mountres3 stores the
\* constructor's fhs_status argument as self.status, as unpack_mountres3 does.
Mountres3 ==
  Union("fhs_status", "status", "mountstat3",
        <<<<{MNT3_OK}, Arm("mountinfo", "mountres3_ok")>>>>, Void)
Groupnode == Struct(<<<<"gr_name", "name">>, <<"gr_next", "groups">>>>)
Exportnode ==
  Struct(<<<<"ex_dir", "dirpath">>, <<"ex_groups", "groups">>,
           <<"ex_next", "exports">>>>)

\* The resok/resfail unions of the NFSv3 results: NFS3_OK carries the
\* first arm, any other status the second.
Res3(ok, fail) == Union("status", "status", "nfsstat3", <<<<{NFS3_OK}, ok>>>>, fail)
Writeverf3 == Fopaque(NFS3_VERFSIZE)
Diropres3ok ==
  Struct(<<<<"obj", "post_op_fh3">>, <<"obj_attributes", "post_op_attr">>,
           <<"dir_wcc", "wcc_data">>>>)
Diropres3 == Res3(Arm("resok", "diropres3ok"), Arm("resfail", "wcc_data"))
Getattr3res == Res3(Arm("attributes", "fattr3"), Void)
Setattr3args ==
  Struct(<<<<"object", "nfs_fh3">>, <<"new_attributes", "sattr3">>,
           <<"guard", "sattrguard3">>>>)
\* unpack_wccdata3res (SETATTR, REMOVE, RMDIR): status and wcc_data, the
\* latter renamed resok under NFS3_OK and resfail otherwise; the returned
\* dict has only the key of the arm taken.
Wccdata3res ==
  [Res3(Arm("resok", "wcc_data"), Arm("resfail", "wcc_data")) EXCEPT !.keep = TRUE]
Lookup3resok ==
  Struct(<<<<"object", "nfs_fh3">>, <<"obj_attributes", "post_op_attr">>,
           <<"dir_attributes", "post_op_attr">>>>)
Lookup3res == Res3(Arm("resok", "lookup3resok"), Arm("resfail", "post_op_attr"))
Access3args == Struct(<<<<"object", "nfs_fh3">>, <<"access", "uint32">>>>)
Access3resok == Struct(<<<<"obj_attributes", "post_op_attr">>, <<"access", "uint32">>>>)
Access3res == Res3(Arm("resok", "access3resok"), Arm("resfail", "post_op_attr"))
Readlink3resok ==
  Struct(<<<<"symlink_attributes", "post_op_attr">>, <<"data", "nfspath3">>>>)
Readlink3res == Res3(Arm("resok", "readlink3resok"), Arm("resfail", "post_op_attr"))
Read3args ==
  Struct(<<<<"file", "nfs_fh3">>, <<"offset", "uint64">>, <<"count", "uint32">>>>)
Read3resok ==
  Struct(<<<<"file_attributes", "post_op_attr">>, <<"count", "uint32">>,
           <<"eof", "bool">>, <<"data", "opaque">>>>)
Read3res == Res3(Arm("resok", "read3resok"), Arm("resfail", "post_op_attr"))
Stable_how == Enum(STABLE_HOW)
Write3args ==
  Struct(<<<<"file", "nfs_fh3">>, <<"offset", "uint64">>, <<"count", "uint32">>,
           <<"stable", "stable_how">>, <<"data", "opaque">>>>)
Write3resok ==
  Struct(<<<<"file_wcc", "wcc_data">>, <<"count", "uint32">>,
           <<"committed", "stable_how">>, <<"verf", "writeverf3">>>>)
Write3res == Res3(Arm("resok", "write3resok"), Arm("resfail", "wcc_data"))
Create3args == Struct(<<<<"where", "diropargs3">>, <<"how", "createhow3">>>>)
\* unpack_create3res, also unpack_mkdir3res, _symlink3res and _mknod3res.
Create3res == Res3(Arm("resok", "diropres3ok"), Arm("resfail", "wcc_data"))
Mkdir3args == Struct(<<<<"where", "diropargs3">>, <<"attributes", "sattr3">>>>)
Symlinkdata3 ==
  Struct(<<<<"symlink_attributes", "sattr3">>, <<"symlink_data", "nfspath3">>>>)
Symlink3args == Struct(<<<<"where", "diropargs3">>, <<"symlink", "symlinkdata3">>>>)
Rename3args == Struct(<<<<"from_v", "diropargs3">>, <<"to", "diropargs3">>>>)
Link3args == Struct(<<<<"file", "nfs_fh3">>, <<"link", "diropargs3">>>>)
Link3wcc ==
  Struct(<<<<"file_attributes", "post_op_attr">>, <<"linkdir_wcc", "wcc_data">>>>)
Link3res == MinusOneVoid("res", "link3wcc")
Readdir3args ==
  Struct(<<<<"dir", "nfs_fh3">>, <<"cookie", "uint64">>,
           <<"cookieverf", "cookieverf3">>, <<"count", "uint32">>>>)
Readdirplus3args ==
  Struct(<<<<"dir", "nfs_fh3">>, <<"cookie", "uint64">>,
           <<"cookieverf", "cookieverf3">>, <<"dircount", "uint32">>,
           <<"maxcount", "uint32">>>>)
Entryplus3 ==
  Struct(<<<<"fileid", "uint64">>, <<"name", "filename3">>, <<"cookie", "uint64">>,
           <<"name_attributes", "post_op_attr">>, <<"name_handle", "post_op_fh3">>,
           <<"nextentry", "entryplus3_list">>>>)
Dirlistplus3 == Struct(<<<<"entries", "entryplus3_list">>, <<"eof", "bool">>>>)
Readdirplus3resok ==
  Struct(<<<<"dir_attributes", "post_op_attr">>, <<"cookieverf", "cookieverf3">>,
           <<"reply", "dirlistplus3">>>>)
Readdirplus3res ==
  Res3(Arm("resok", "readdirplus3resok"), Arm("resfail", "post_op_attr"))
Fsstat3resok ==
  Struct(<<<<"obj_attributes", "post_op_attr">>, <<"tbytes", "uint64">>,
           <<"fbytes", "uint64">>, <<"abytes", "uint64">>, <<"tfiles", "uint64">>,
           <<"ffiles", "uint64">>, <<"afiles", "uint64">>, <<"invarsec", "uint32">>>>)
Fsstat3res == Res3(Arm("resok", "fsstat3resok"), Arm("resfail", "post_op_attr"))
Fsinfo3resok ==
  Struct(<<<<"obj_attributes", "post_op_attr">>, <<"rtmax", "uint32">>,
           <<"rtpref", "uint32">>, <<"rtmult", "uint32">>, <<"wtmax", "uint32">>,
           <<"wtpref", "uint32">>, <<"wtmult", "uint32">>, <<"dtpref", "uint32">>,
           <<"maxfilesize", "uint64">>, <<"time_delta", "nfstime3">>,
           <<"properties", "uint32">>>>)
Fsinfo3res == Res3(Arm("resok", "fsinfo3resok"), Arm("resfail", "post_op_attr"))
Pathconf3resok ==
  Struct(<<<<"obj_attributes", "post_op_attr">>, <<"linkmax", "uint32">>,
           <<"name_max", "uint32">>, <<"no_trunc", "bool">>,
           <<"chown_restricted", "bool">>, <<"case_insensitive", "bool">>,
           <<"case_preserving", "bool">>>>)
Pathconf3res == Res3(Arm("resok", "pathconf3resok"), Arm("resfail", "post_op_attr"))
Commit3args ==
  Struct(<<<<"file", "nfs_fh3">>, <<"offset", "uint64">>, <<"count", "uint32">>>>)
Commit3resok == Struct(<<<<"file_wcc", "wcc_data">>, <<"verf", "writeverf3">>>>)
Commit3res == Res3(Arm("resok", "commit3resok"), Arm("resfail", "wcc_data"))
Setaclargs == Struct(<<<<"dargs", "diropargs3">>, <<"wargs", "write3args">>>>)
Mountbody ==
  Struct(<<<<"ml_hostname", "name">>, <<"ml_directory", "dirpath">>,
           <<"ml_next", "mountlist">>>>)

Desc ==
  [uint32 |-> Prim("uint"), int |-> Prim("int"), uint64 |-> Prim("uint64"),
   bool |-> Prim("bool"),
   filename3 |-> Filename3, nfspath3 |-> Nfspath3,
   cookieverf3 |-> Cookieverf3, createverf3 |-> Cookieverf3,
   nfsstat3 |-> Nfsstat3, ftype3 |-> Ftype3, specdata3 |-> Specdata3,
   fh_data |-> Fh_data, nfs_fh3 |-> Nfs_fh3,
   nfstime3 |-> Nfstime3, fattr3 |-> Fattr3, post_op_attr |-> Post_op_attr,
   wcc_attr |-> Wcc_attr, pre_op_attr |-> Pre_op_attr, wcc_data |-> Wcc_data,
   post_op_fh3 |-> Post_op_fh3, set_uint32 |-> Set_uint32,
   set_uint64 |-> Set_uint64, time_how |-> Time_how, set_time |-> Set_time,
   sattr3 |-> Sattr3, diropargs3 |-> Diropargs3, wccstat3 |-> Wccstat3,
   sattrguard3 |-> Sattrguard3, createmode3 |-> Createmode3,
   createhow3 |-> Createhow3, devicedata3 |-> Devicedata3,
   mknoddata3 |-> Mknoddata3, mknod3args |-> Mknod3args,
   rename3wcc |-> Rename3wcc, rename3res |-> Rename3res,
   entry3 |-> Entry3, entry3_list |-> List("entry3", 1),
   dirlist3 |-> Dirlist3, readdir3resok |-> Readdir3resok,
   readdir3res |-> Readdir3res,
   dirpath |-> Dirpath, name |-> Name, fhandle3 |-> Fhandle3,
   mountstat3 |-> Mountstat3, int_list |-> List("int", NoMax),
   mountres3_ok |-> Mountres3_ok, mountres3 |-> Mountres3,
   groups |-> List("groupnode", 1), groupnode |-> Groupnode,
   exports |-> List("exportnode", 1), exportnode |-> Exportnode,
   opaque |-> Opaque(NoMax), writeverf3 |-> Writeverf3,
   diropres3ok |-> Diropres3ok, diropres3 |-> Diropres3,
   getattr3res |-> Getattr3res, setattr3args |-> Setattr3args,
   wccdata3res |-> Wccdata3res, lookup3resok |-> Lookup3resok,
   lookup3res |-> Lookup3res, access3args |-> Access3args,
   access3resok |-> Access3resok, access3res |-> Access3res,
   readlink3resok |-> Readlink3resok, readlink3res |-> Readlink3res,
   read3args |-> Read3args, read3resok |-> Read3resok, read3res |-> Read3res,
   stable_how |-> Stable_how, write3args |-> Write3args,
   write3resok |-> Write3resok, write3res |-> Write3res,
   create3args |-> Create3args, create3res |-> Create3res,
   mkdir3args |-> Mkdir3args, symlinkdata3 |-> Symlinkdata3,
   symlink3args |-> Symlink3args, rename3args |-> Rename3args,
   link3args |-> Link3args, link3wcc |-> Link3wcc, link3res |-> Link3res,
   readdir3args |-> Readdir3args, readdirplus3args |-> Readdirplus3args,
   entryplus3 |-> Entryplus3, entryplus3_list |-> List("entryplus3", 1),
   dirlistplus3 |-> Dirlistplus3, readdirplus3resok |-> Readdirplus3resok,
   readdirplus3res |-> Readdirplus3res, fsstat3resok |-> Fsstat3resok,
   fsstat3res |-> Fsstat3res, fsinfo3resok |-> Fsinfo3resok,
   fsinfo3res |-> Fsinfo3res, pathconf3resok |-> Pathconf3resok,
   pathconf3res |-> Pathconf3res, commit3args |-> Commit3args,
   commit3resok |-> Commit3resok, commit3res |-> Commit3res,
   setaclargs |-> Setaclargs, mountlist |-> List("mountbody", 1),
   mountbody |-> Mountbody]

----------------------------------------------------------------------------
(* The templates of the generated code.                                   *)

\* The arm taken for discriminant x: the first arm whose values hold x.
ArmOf(d, x) ==
  LET i == SelectInSeq(d.arms, LAMBDA a : x \in a[1])
  IN  IF i = 0 THEN d.other ELSE d.arms[i][2]

\* The attributes of a decoded union whose arm f was taken: the
\* discriminant and every arm value, or only f when the union keeps one.
UnionFields(d, f) ==
  IF d.keep THEN {d.uf, f} \ {Void[1], Bad[1]}
  ELSE ({d.uf} \cup {a[2][1] : a \in Range(d.arms)} \cup {d.other[1]})
         \ {Void[1], Bad[1]}

\* Run two packing steps in order: the first exception stops the call.
Then(r1, r2) ==
  IF r1.err # "" THEN r1 ELSE IF r2.err # "" THEN r2 ELSE Ok(r1.out \o r2.out)

\* "if data.f is None: raise TypeError" before packing attribute f; an
\* object without attribute f raises AttributeError.
Attr(v, f) ==
  IF f \notin DOMAIN v THEN "AttributeError"
  ELSE IF v[f] = NULL THEN "TypeError" ELSE ""

\* Mutant: pack_X packs an enum value without checking it.
PackEnumUnchecked(d, v) == PackInt(v)

\* pack_nfsstat3 and the other enum encoders: raise XDRError for a value
\* outside the enum, else pack_int.
PackEnum(d, v) == IF v \in d.vals THEN PackInt(v) ELSE Fail("XDRError")

RECURSIVE Pack(_, _), PackFields(_, _, _), PackItems(_, _, _)

\* pack_X(v) for the type named t.
Pack(t, v) ==
  LET d == Desc[t] IN
  CASE d.k = "uint"    -> PackUint(v)
    [] d.k = "int"     -> PackInt(v)
    [] d.k = "uint64"  -> PackUint64(v)
    [] d.k = "bool"    -> PackBool(v)
    [] d.k = "enum"    -> PackEnum(d, v)
    \* len(None) and None[:n] raise TypeError; a str gets through the
    \* length check, then pack_fstring adds bytes padding to it.
    [] d.k \in {"opaque", "fopaque"} /\ v \in {NULL, PyStr} -> Fail("TypeError")
    [] d.k = "opaque"  -> IF d.max # NoMax /\ Len(v) > d.max THEN Fail("XDRError")
                          ELSE Ok(PackString(v))
    [] d.k = "fopaque" -> Ok(PackFstring(d.n, v))
    [] d.k = "struct"  -> PackFields(d.fields, v, 1)
    [] d.k = "list"    -> IF d.max # NoMax /\ Len(v) > d.max THEN Fail("XDRError")
                          ELSE Then(PackUint(Len(v)), PackItems(d.e, v, 1))
    [] d.k = "union"   ->
         IF Attr(v, d.pf) # "" THEN Fail(Attr(v, d.pf))
         ELSE LET a == ArmOf(d, v[d.pf]) IN
              Then(Pack(d.dt, v[d.pf]),
                   CASE a = Void -> Ok(<<>>)
                     [] a = Bad  -> Fail("XDRError")
                     [] OTHER    -> IF Attr(v, a[1]) # "" THEN Fail(Attr(v, a[1]))
                                    ELSE Pack(a[2], v[a[1]]))

\* The fields of a struct from the i-th on.
PackFields(fs, v, i) ==
  IF i > Len(fs) THEN Ok(<<>>)
  ELSE IF Attr(v, fs[i][1]) # "" THEN Fail(Attr(v, fs[i][1]))
  ELSE Then(Pack(fs[i][2], v[fs[i][1]]), PackFields(fs, v, i + 1))

\* pack_farray: the items of a list from the i-th on.
PackItems(e, v, i) ==
  IF i > Len(v) THEN Ok(<<>>) ELSE Then(Pack(e, v[i]), PackItems(e, v, i + 1))

\* Mutant: the generated enum check left out of unpack_X.
UnpackEnumUnchecked(d, b, p) == UnpackInt(b, p)

\* unpack_nfsstat3 and the other enum decoders: an int, then membership.
UnpackEnum(d, b, p) ==
  LET x == UnpackInt(b, p) IN
  IF x.err = "" /\ x.val \notin d.vals THEN Raise("XDRError") ELSE x

RECURSIVE Unpack(_, _, _), UnpackStruct(_, _, _), UnpackList(_, _, _),
          UnpackUnion(_, _, _), UnpackFields(_, _, _, _), UnpackItems(_, _, _, _)

\* unpack_dirpath, unpack_name, unpack_fhandle3: unpack_opaque (or
\* unpack_string), then the generated bound check.
UnpackOpaque(d, b, p) ==
  LET s == UnpackString(b, p) IN
  IF s.err = "" /\ d.max # NoMax /\ Len(s.val) > d.max THEN Raise("XDRError") ELSE s

\* unpack_specdata3, unpack_nfstime3 and the other struct decoders: each
\* field in order, the object's __dict__ returned.
UnpackStruct(d, b, p) ==
  LET r == UnpackFields(d.fields, b, p, 1) IN
  IF r.err # "" THEN r ELSE Got([f \in DOMAIN r.val |-> r.val[f]], r.pos)

\* unpack_mountlist, unpack_groups, unpack_exports: unpack_array reads the
\* count and every item before the generated length check.
UnpackList(d, b, p) ==
  LET n == UnpackUint(b, p)
      r == UnpackItems(d.e, b, n.pos, n.val)
  IN  CASE n.err # "" -> n
        [] r.err # "" -> r
        [] d.max # NoMax /\ Len(r.val) > d.max -> Raise("XDRError")
        [] OTHER -> r

\* unpack_mknoddata3 and the other union decoders: the discriminant, then
\* the first arm whose case is equal to it, or the else branch; the other
\* arm attributes of the new object stay None.
UnpackUnion(d, b, p) ==
  LET x == Unpack(d.dt, b, p)
      a == ArmOf(d, x.val)
      y == Unpack(a[2], b, x.pos)
      Obj(f, w) == [g \in UnionFields(d, f) |->
                      CASE g = d.uf -> x.val [] g = f -> w [] OTHER -> NULL]
  IN  CASE x.err # "" -> x
        [] a = Void   -> Got(Obj("", NULL), x.pos)
        [] a = Bad    -> Raise("XDRError")
        [] y.err # "" -> y
        [] OTHER      -> Got(Obj(a[1], y.val), y.pos)

\* unpack_X() for the type named t, reading buffer b from position p: the
\* decoder each generated unpacker calls for a field of type t.
Unpack(t, b, p) ==
  LET d == Desc[t] IN
  CASE d.k = "uint"    -> UnpackUint(b, p)
    [] d.k = "int"     -> UnpackInt(b, p)
    [] d.k = "uint64"  -> UnpackUint64(b, p)
    [] d.k = "bool"    -> UnpackBool(b, p)
    [] d.k = "enum"    -> UnpackEnum(d, b, p)
    [] d.k = "opaque"  -> UnpackOpaque(d, b, p)
    [] d.k = "fopaque" -> UnpackFstring(d.n, b, p)
    [] d.k = "struct"  -> UnpackStruct(d, b, p)
    [] d.k = "list"    -> UnpackList(d, b, p)
    [] d.k = "union"   -> UnpackUnion(d, b, p)

\* The fields of a struct from the i-th on, as a function of their names.
UnpackFields(fs, b, p, i) ==
  IF i > Len(fs) THEN Got(<<>>, p)
  ELSE LET x == Unpack(fs[i][2], b, p)
           r == UnpackFields(fs, b, x.pos, i + 1)
       IN  CASE x.err # "" -> x
             [] r.err # "" -> r
             [] OTHER -> Got((fs[i][1] :> x.val) @@ r.val, r.pos)

\* unpack_farray(n): n items, read one after the other.
UnpackItems(e, b, p, n) ==
  IF n = 0 THEN Got(<<>>, p)
  ELSE LET x == Unpack(e, b, p)
           r == UnpackItems(e, b, x.pos, n - 1)
       IN  CASE x.err # "" -> x
             [] r.err # "" -> r
             [] OTHER -> Got(<<x.val>> \o r.val, r.pos)

=============================================================================
