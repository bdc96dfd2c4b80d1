------------------------------ MODULE Portmap ------------------------------
(***************************************************************************)
(* The PORTMAP v2 client, src/pyNfsClient/portmap.py: the arguments dump() *)
(* and getport() pack with struct, and the hand-written parsers that turn  *)
(* the body request() returns into a list of mappings or a port.           *)
(*                                                                         *)
(* A mapping is [program, version, protocol, port] of uint32 values; a    *)
(* parsed entry has the protocol as "tcp", "udp" or "unknown".             *)
(***************************************************************************)
EXTENDS Xdr

\* Python's b[i:j] on a byte sequence: the bytes that exist in that range.
PySlice(b, i, j) == SubSeq(b, i + 1, IF j < Len(b) THEN j ELSE Len(b))

\* The protocol names dump() gives: 0x06 and 0x11, anything else 'unknown'.
Protocol(p) == CASE p = 6 -> "tcp" [] p = 17 -> "udp" [] OTHER -> "unknown"

\* One mapping of struct.unpack('!LLLL', b[:16]).
Entry(b) ==
  [program |-> Uint4(PySlice(b, 0, 4)), version |-> Uint4(PySlice(b, 4, 8)),
   protocol |-> Protocol(Uint4(PySlice(b, 8, 12))), port |-> Uint4(PySlice(b, 12, 16))]

\* Mutant: every entry is appended, duplicates included.
DumpLoopKeepAll(vf, rest, acc) ==
  LET e == Entry(rest)
      r == PySlice(rest, 16, Len(rest))
  IN  [vf |-> PySlice(r, 0, 4), rest |-> PySlice(r, 4, Len(r)), acc |-> Append(acc, e)]

\* One turn of dump()'s while loop: unpack an entry, append it unless an
\* equal dict is already in the list, read the next value-follows word.
DumpLoop(vf, rest, acc) ==
  LET e == Entry(rest)
      r == PySlice(rest, 16, Len(rest))
  IN  [vf |-> PySlice(r, 0, 4), rest |-> PySlice(r, 4, Len(r)),
       acc |-> IF e \in Range(acc) THEN acc ELSE Append(acc, e)]

\* The loop runs while the value-follows word is exactly 1; fewer than 16
\* bytes left for an entry is a struct.error.
RECURSIVE DumpFrom(_)
DumpFrom(s) ==
  CASE s.vf # BE4(1)   -> Got(s.acc, 0)
    [] Len(s.rest) < 16 -> Raise("struct.error")
    [] OTHER            -> DumpFrom(DumpLoop(s.vf, s.rest, s.acc))

\* dump(): a body of at most four bytes is an empty list; otherwise the
\* first word is value-follows and the rest the entries.
Dump(b) ==
  IF Len(b) <= 4 THEN Got(<<>>, 0)
  ELSE DumpFrom([vf |-> PySlice(b, 0, 4), rest |-> PySlice(b, 4, Len(b)), acc |-> <<>>])

\* getport(): struct.unpack('!L', body) needs exactly four bytes.
Getport(b) == IF Len(b) # 4 THEN Raise("struct.error") ELSE Got(Uint4(b), 0)

\* The arguments each call packs: dump() sends '!LL' of the program version
\* and the procedure number, getport() '!LLLL' of its inputs and port 0.
PmapArgs(c) ==
  IF c.proc = "dump" THEN StructPack(<<2, 4>>)
  ELSE StructPack(<<c.prog, c.vers, c.prot, 0>>)

\* The parser each call runs on the body request() returns.
PmapParse(c, b) == IF c.proc = "dump" THEN Dump(b) ELSE Getport(b)

----------------------------------------------------------------------------
(* What a portmapper sends (RFC 1833), the reference the parsers are read *)
(* against.                                                                *)

\* A pmaplist: each mapping after a value-follows TRUE, then FALSE.
PmapList(ms) ==
  FlattenSeq([i \in DOMAIN ms |->
                BE4(1) \o BE4(ms[i].program) \o BE4(ms[i].version)
                       \o BE4(ms[i].protocol) \o BE4(ms[i].port)]) \o BE4(0)

\* Spec section 4.4: the list materialised in order, protocols 6 and 17
\* named, and every entry after the first of its kind suppressed.
Materialised(ms) ==
  LET t == [i \in DOMAIN ms |-> [ms[i] EXCEPT !.protocol = Protocol(ms[i].protocol)]]
      firsts == {i \in DOMAIN t : \A j \in 1..(i - 1) : t[j] # t[i]}
      order == SetToSortSeq(firsts, LAMBDA x, y : x < y)
  IN  [k \in DOMAIN order |-> t[order[k]]]

=============================================================================
