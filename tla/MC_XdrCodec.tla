----------------------------- MODULE MC_XdrCodec -----------------------------
EXTENDS XdrCodec

\* A value of every length class modulo 4, and a file handle one byte over
\* NFS3_FHSIZE.
\* An nfsstat3 value outside the enum: the status the -1 arms switch on.
MCBadEnum == -1

MCByteSamples == {<<>>, <<1>>, <<1, 1, 1, 1, 1>>, [i \in 1..NFS3_FHSIZE + 1 |-> 1]}

\* Handles a caller may pass: bytes, empty bytes (falsy, so fh_check lets
\* it through), a str, None.
MCHandles == {Bytes(<<1>>), Bytes(<<>>), Str(<<97>>), None}
\* A name, symlink target or content as a str and as bytes.
MCNames == {Str(<<97>>), Bytes(<<97>>)}
\* Keyword arguments of get_sattr3: the defaults of setattr (server time,
\* nothing set), client times with mode and size, client time without a
\* time (int(None)), and a flag outside time_how.
MCServerTime == [mode |-> NULL, uid |-> NULL, gid |-> NULL, size |-> NULL,
                 atime_flag |-> 1, atime_s |-> NULL, atime_ns |-> NULL,
                 mtime_flag |-> 1, mtime_s |-> NULL, mtime_ns |-> NULL]
MCAttrs ==
  {MCServerTime,
   [MCServerTime EXCEPT !.mode = 1, !.size = <<0, 1>>, !.atime_flag = 2,
                        !.atime_s = 1, !.atime_ns = 0],
   [MCServerTime EXCEPT !.mtime_flag = 2],
   [MCServerTime EXCEPT !.atime_flag = 3]}
MCTime == [seconds |-> 1, nseconds |-> 0]
\* The create verifier: the default '0' (a str), eight bytes, one byte.
MCVerfs == {Str(<<48>>), Bytes([i \in 1..8 |-> 1]), Bytes(<<1>>)}

MCCalls ==
  {[proc |-> p, fh |-> h] : p \in {"getattr", "readlink", "fsstat", "fsinfo", "pathconf"},
                            h \in MCHandles}
  \cup {[proc |-> "setattr", fh |-> h, attrs |-> a, check |-> g[1], ctime |-> g[2]] :
          h \in MCHandles, a \in MCAttrs, g \in {<<0, NULL>>, <<1, NULL>>, <<1, MCTime>>}}
  \cup {[proc |-> p, fh |-> h, name |-> n] : p \in {"lookup", "remove", "rmdir"},
                                            h \in MCHandles, n \in MCNames}
  \cup {[proc |-> "access", fh |-> h, access |-> 1] : h \in MCHandles}
  \cup {[proc |-> p, fh |-> h, offset |-> <<0, 1>>, count |-> 1] :
          p \in {"read", "commit"}, h \in MCHandles}
  \cup {[proc |-> "write", fh |-> h, offset |-> <<0, 1>>, count |-> 1, stable |-> s,
          content |-> n] : h \in MCHandles, s \in {0, 3}, n \in MCNames}
  \cup {[proc |-> "create", fh |-> h, name |-> Str(<<97>>), mode |-> m, attrs |-> a,
          verf |-> v] : h \in MCHandles, m \in {0, 2, 3}, a \in MCAttrs, v \in MCVerfs}
  \cup {[proc |-> "mkdir", fh |-> h, name |-> Str(<<97>>), attrs |-> a] :
          h \in MCHandles, a \in MCAttrs}
  \cup {[proc |-> "symlink", fh |-> h, name |-> Str(<<97>>), target |-> n] :
          h \in MCHandles, n \in MCNames}
  \cup {[proc |-> "mknod", fh |-> h, name |-> Str(<<97>>), ftype |-> f, attrs |-> a,
          major |-> 1, minor |-> 2] : h \in MCHandles, f \in {1, 3, 4, 6, 7, 9},
                                      a \in {MCServerTime, [MCServerTime EXCEPT !.atime_flag = 3]}}
  \cup {[proc |-> "rename", fh |-> h, name |-> Str(<<97>>), fh2 |-> h2, name2 |-> Str(<<98>>)] :
          h \in MCHandles, h2 \in MCHandles}
  \cup {[proc |-> "link", fh |-> h, fh2 |-> h2, name |-> Str(<<97>>)] :
          h \in MCHandles, h2 \in MCHandles}
  \cup {[proc |-> "readdir", fh |-> h, cookie |-> <<0, 0>>, verf |-> v, count |-> 1] :
          h \in MCHandles, v \in {Str(<<48>>), Bytes([i \in 1..8 |-> 1])}}
  \cup {[proc |-> "readdirplus", fh |-> h, cookie |-> <<0, 0>>, verf |-> v,
         dircount |-> 1, maxcount |-> 2] :
          h \in MCHandles, v \in {Str(<<48>>), Bytes([i \in 1..8 |-> 1])}}

\* Mappings a portmapper may list: NFS over TCP, MOUNT over UDP, and MOUNT
\* over two protocols dump() does not name.
MCMap(prog, prot, port) == [program |-> prog, version |-> 3, protocol |-> prot, port |-> port]
MCMaps ==
  {<<>>, <<MCMap(100003, 6, 2049)>>, <<MCMap(100003, 6, 2049), MCMap(100003, 6, 2049)>>,
   <<MCMap(100005, 17, 892), MCMap(100003, 6, 2049), MCMap(100005, 17, 892)>>,
   <<MCMap(100003, 6, 2049), MCMap(100005, 99, 892), MCMap(100005, 132, 892)>>}
\* dump(), getport() of MOUNT with a protocol struct cannot pack, and the
\* two getport() calls of releaselock.py.
MCPmapCalls ==
  {[proc |-> "dump", reply |-> ms] : ms \in MCMaps}
  \cup {[proc |-> "getport", prog |-> 100005, vers |-> 3, prot |-> -1, reply |-> 892]}
  \cup ReleaseLocksGetports(892, 4045)

\* MOUNT paths of each length class modulo 4 ("/", "/ab", "/abc") and one
\* with a non-ASCII character ("/\u00e9"); no argument for NULL.
MCPaths == {<<47>>, <<47, 97, 98>>, <<47, 97, 98, 99>>, <<47, 233>>}
MCUnix(name, uid, gids) ==
  [flavor |-> 1, machine_name |-> name, uid |-> uid, gid |-> 0, aux_gid |-> gids]
\* No auth, AUTH_UNIX with aux gids [0], [] and [5, 6], a non-ASCII
\* machine name, a uid struct cannot pack, and the flavors 2 and 0.
MCAuths ==
  {NULL, MCUnix(<<104>>, 0, <<0>>), MCUnix(<<104>>, 0, <<>>), MCUnix(<<104, 111>>, 0, <<5, 6>>),
   MCUnix(<<233>>, 0, <<>>), MCUnix(<<104>>, -1, <<>>), [flavor |-> 2], [flavor |-> 0]}
MCRpcCalls ==
  {[xid |-> 1000, prog |-> 100005, vers |-> 3, proc |-> 0, auth |-> a, args |-> <<>>] :
     a \in MCAuths}
  \cup {[xid |-> 1000, prog |-> 100005, vers |-> 3, proc |-> 1, auth |-> a, args |-> p] :
          a \in MCAuths, p \in MCPaths}
=============================================================================
