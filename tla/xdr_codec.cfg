\* Every sample value of the listed types, every sampled NFSv3, PORTMAP
\* and RPC call through the packer, a faulty wire and the decoder.
CONSTANTS
  NULL = NULL
  PyStr = PyStr
  Types = {"mknod3args","createhow3","wccstat3","rename3res","readdir3res","exports","mountres3_ok","getattr3res","setattr3args","wccdata3res","lookup3res","access3res","readlink3res","read3args","read3res","write3args","write3res","create3args","create3res","mkdir3args","symlink3args","rename3args","link3args","link3res","readdir3args","readdirplus3args","readdirplus3res","fsstat3res","fsinfo3res","pathconf3res","commit3args","commit3res","setaclargs","diropres3","access3args","mountlist"}
  EnumSamples = {0, 1, 2, 3, 4, 5, 6, 7}
  BadEnum <- MCBadEnum
  ByteSamples <- MCByteSamples
  MaxDepth = 2
  FaultWords = {0, 2, 3}
  Faults = TRUE
  Calls <- MCCalls
  PmapCalls <- MCPmapCalls
  RpcCalls <- MCRpcCalls
  Stamp = 7
SPECIFICATION Spec
INVARIANTS RoundTrip EncoderValidates DecodedConforms ArgErrorsBeforeIO PortmapReadsReply CallEncodes
