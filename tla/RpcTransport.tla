--------------------------- MODULE RpcTransport ---------------------------
(***************************************************************************)
(* One RPC connection of pyNfsClient (src/pyNfsClient/rpc.py).             *)
(*                                                                         *)
(* The client is RPC.request together with RPC.recv: it sends a call,      *)
(* then reads record-marked fragments from the TCP stream until one has    *)
(* the last-fragment bit, checks the first 24 bytes of the reassembled     *)
(* reply and returns the rest.  The server at the other end answers the    *)
(* calls in order, splitting each reply into fragments of its choosing.    *)
(*                                                                         *)
(* Bytes are abstract tokens that remember where they came from:           *)
(*   Mark(c, f, i)  the i-th byte of the record mark of fragment f of the  *)
(*                  reply to call c,                                       *)
(*   Byte(c, k)     the k-th payload byte of the reply to call c,          *)
(*   Arg(c)         the argument bytes request() was given for call c.    *)
(* Four tokens decode to a fragment length only when they are the four     *)
(* bytes of one record mark; any other four bytes decode to an arbitrary   *)
(* length and last bit (the value of whatever payload bytes they are).     *)
(***************************************************************************)
EXTENDS Naturals, Sequences, SequencesExt, FiniteSets

CONSTANTS
  MaxCalls,      \* number of request() calls the caller makes
  PayloadLens,   \* lengths of a reply payload (the bytes after the marks)
  FragLens,      \* fragment lengths the server may use
  ReplyHdrLen,   \* stands for the 24-byte accepted-reply header
  GarbageLens,   \* lengths decoded from four bytes that are no record mark
  ShortReads,    \* recv(n) may return fewer than n of the available bytes
  Timeouts,      \* recv may raise socket.timeout on an empty buffer
  ServerLoses,   \* the server may never answer a call
  ServerCloses,  \* the server may close its end of the connection
  Rejects,       \* the server may answer with a non-SUCCESS accept state
  CallerCloses,  \* the caller may disconnect() and go on calling
  PartialSends,  \* send() may write only part of a call
  SlowNetwork,   \* a reply may reach the client's socket in pieces
  ReleaseThread, \* release_all_rpc() may run on another thread
  NULL

ASSUME MaxCalls \in Nat \ {0}
ASSUME ReplyHdrLen \in Nat \ {0}
ASSUME PayloadLens \subseteq ReplyHdrLen..100 /\ PayloadLens # {}
ASSUME FragLens \subseteq Nat \ {0} /\ GarbageLens \subseteq Nat
ASSUME {ShortReads, Timeouts, ServerLoses, ServerCloses, Rejects,
        CallerCloses, PartialSends,
        SlowNetwork, ReleaseThread} \subseteq BOOLEAN

VARIABLES
  conn,      \* "connected" or "closed": the state of self.client
  pc,        \* "idle", "hdr" (rpc.py:171-172) or "body" (rpc.py:179-180)
  ncalls,    \* calls issued so far; the current call is ncalls
  data,      \* payload of the fragments received so far (rpc.py:100,107)
  frag,      \* payload bytes of the fragment being read (rpc_response)
  fragLen,   \* response_size decoded from the record mark (rpc.py:176)
  fragLast,  \* the last-fragment bit of that mark (rpc.py:105)
  result,    \* what the last request() returned, and along which path
  inbound,   \* calls the server has received and not yet answered
  stream,    \* bytes in the client's socket buffer, not yet read
  transit,   \* bytes the server has sent that have not reached the client
  eof,       \* the server has closed its end
  torn,      \* the server holds part of a call: its input is out of frame
  reply      \* reply[c]: fragment lengths and accept state of reply to c

vars == <<conn, pc, ncalls, data, frag, fragLen, fragLast, result,
          inbound, stream, transit, eof, torn, reply>>

Calls == 1..MaxCalls

Mark(c, f, i) == <<"mark", c, f, i>>
Byte(c, k) == <<"byte", c, k>>
Arg(c) == <<"arg", c>>

MaxFrags == Max(PayloadLens)
Token == {Mark(c, f, i) : c \in Calls, f \in 1..MaxFrags, i \in 1..4}
         \cup {Byte(c, k) : c \in Calls, k \in 1..Max(PayloadLens)}
         \cup {Arg(c) : c \in Calls}

\* The ways the server can split a payload of n bytes into fragments.
RECURSIVE Fragmentations(_)
Fragmentations(n) ==
  IF n = 0 THEN {<<>>}
  ELSE UNION {{<<k>> \o fs : fs \in Fragmentations(n - k)} :
                k \in {x \in FragLens : x <= n}}

PayloadLen(fs) == FoldLeft(+, 0, fs)

\* The bytes of a reply on the wire: each fragment is a 4-byte record mark
\* followed by its payload (rpc.py:92-94 is the same layout for calls).
Wire(c, fs) ==
  FlattenSeq([f \in 1..Len(fs) |->
    [i \in 1..4 |-> Mark(c, f, i)]
    \o [k \in 1..fs[f] |-> Byte(c, PayloadLen(SubSeq(fs, 1, f - 1)) + k)]])

\* The payload of the reply to c after its 24-byte header.
Body(c) ==
  [k \in 1..(PayloadLen(reply[c].frags) - ReplyHdrLen) |->
     Byte(c, ReplyHdrLen + k)]

----------------------------------------------------------------------------
(* Decoding.                                                               *)

IsMark(b) ==
  \A i \in 1..4 : /\ b[i][1] = "mark"
                  /\ b[i][2] = b[1][2] /\ b[i][3] = b[1][3]
                  /\ b[i][4] = i

\* The last-fragment bit 0x80000000 of a record mark.  TLC's integers are
\* signed 32-bit, so bit 30 stands for bit 31: both lie far above every
\* fragment length of the model.
LastFragBit == 2^30

\* Mutant: response_size keeps the last-fragment bit (no & 0x7fffffff).
MarkValuesUnmasked(b) ==
  IF IsMark(b)
  THEN LET fs == reply[b[1][2]].frags
           last == b[1][3] = Len(fs)
       IN  {[len |-> fs[b[1][3]] + (IF last THEN LastFragBit ELSE 0), last |-> last]}
  ELSE [len : GarbageLens, last : BOOLEAN]

\* struct.unpack('!L', ...) & 0x7fffffff and & 0x80000000 of four bytes.
MarkValues(b) ==
  IF IsMark(b)
  THEN LET fs == reply[b[1][2]].frags
       IN  {[len |-> fs[b[1][3]], last |-> b[1][3] = Len(fs)]}
  ELSE [len : GarbageLens, last : BOOLEAN]

IsReplyHeader(d) ==
  \A k \in 1..ReplyHdrLen : /\ d[k][1] = "byte"
                            /\ d[k][2] = d[1][2] /\ d[k][3] = k

\* Outcome of the check at rpc.py:109-120 on the reassembled message d:
\* TRUE when msg_type, reply_state and accept_state are all as expected.
\* The XID field is not compared with the call's.
Accepted(d) ==
  IF Len(d) < ReplyHdrLen THEN {FALSE}           \* struct.error
  ELSE IF IsReplyHeader(d) THEN {reply[d[1][2]].ok}
  ELSE BOOLEAN

\* Sizes socket.recv(n) can return when bytes are available.
ReadSizes(n) ==
  LET m == Min({n, Len(stream)})
  IN  IF ShortReads THEN 1..m ELSE {m}

Consume(k) == stream' = SubSeq(stream, k + 1, Len(stream))

----------------------------------------------------------------------------
(* The client: RPC.request and RPC.recv.                                   *)

Init ==
  /\ conn = "connected"
  /\ pc = "idle"
  /\ ncalls = 0
  /\ data = <<>>
  /\ frag = <<>>
  /\ fragLen = 0
  /\ fragLast = FALSE
  /\ result = NULL
  /\ inbound = <<>>
  /\ stream = <<>>
  /\ transit = <<>>
  /\ eof = FALSE
  /\ torn = FALSE
  /\ reply = [c \in Calls |-> NULL]

\* Mutant: the buffer is not reset to b"" after send(), so the payload of
\* the previous call's reply stays in front of the next one.
RequestKeepsData ==
  /\ pc = "idle"
  /\ ncalls < MaxCalls
  /\ ncalls' = ncalls + 1
  /\ \/ /\ conn = "connected"
        /\ \E part \in IF PartialSends THEN BOOLEAN ELSE {FALSE} :
             torn' = (torn \/ part)
        /\ inbound' = IF eof \/ torn' THEN inbound
                      ELSE Append(inbound, ncalls + 1)
        /\ pc' = "hdr"
        /\ UNCHANGED <<result, data>>
     \/ /\ conn = "closed" \/ eof
        /\ result' = [call |-> ncalls + 1, val |-> <<Arg(ncalls + 1)>>,
                      path |-> "error"]
        /\ UNCHANGED <<inbound, pc, data, torn>>
  /\ UNCHANGED <<conn, frag, fragLen, fragLast, stream, transit, eof, reply>>

\* request() builds the call and sends it.  send() on a closed socket, or
\* on one whose peer has gone, raises; the except clause then returns the
\* local variable data, which still holds the call's argument bytes.
\* send() may also write only part of the call, and its return value is
\* not checked: the server then waits for the rest of the record, and
\* reads the bytes of every later call as part of it.
Request ==
  /\ pc = "idle"
  /\ ncalls < MaxCalls
  /\ ncalls' = ncalls + 1
  /\ \/ /\ conn = "connected"
        /\ \E part \in IF PartialSends THEN BOOLEAN ELSE {FALSE} :
             torn' = (torn \/ part)
        /\ inbound' = IF eof \/ torn' THEN inbound
                      ELSE Append(inbound, ncalls + 1)
        /\ pc' = "hdr"
        /\ data' = <<>>
        /\ UNCHANGED result
     \/ /\ conn = "closed" \/ eof
        /\ result' = [call |-> ncalls + 1, val |-> <<Arg(ncalls + 1)>>,
                      path |-> "error"]
        /\ UNCHANGED <<inbound, pc, data, torn>>
  /\ UNCHANGED <<conn, frag, fragLen, fragLast, stream, transit, eof, reply>>

\* One turn of `while len(rpc_response_size) != 4: ... = recv(4)`: fewer
\* than four bytes are thrown away and the loop reads again.
RecvHeader ==
  /\ pc = "hdr"
  /\ conn = "connected"
  /\ stream # <<>>
  /\ \E k \in ReadSizes(4) :
       /\ Consume(k)
       /\ IF k = 4
          THEN \E h \in MarkValues(SubSeq(stream, 1, 4)) :
                 /\ pc' = "body"
                 /\ frag' = <<>>
                 /\ fragLen' = h.len
                 /\ fragLast' = h.last
          ELSE UNCHANGED <<pc, frag, fragLen, fragLast>>
  /\ UNCHANGED <<torn, transit, conn, ncalls, data, result, inbound, eof, reply>>

\* One turn of `while len(rpc_response) < response_size`, where
\* rpc_response still holds the 4 mark bytes.
RecvBody ==
  /\ pc = "body"
  /\ conn = "connected"
  /\ 4 + Len(frag) < fragLen
  /\ stream # <<>>
  /\ \E k \in ReadSizes(fragLen - (4 + Len(frag)) + 4) :
       /\ frag' = frag \o SubSeq(stream, 1, k)
       /\ Consume(k)
  /\ UNCHANGED <<torn, transit, conn, pc, ncalls, data, fragLen, fragLast, result,
                 inbound, eof, reply>>

\* Mutant: request() keeps only the latest fragment (`data = response[4:]`
\* in place of `data += response[4:]`).
RecvReturnLastFragmentOnly ==
  /\ pc = "body"
  /\ 4 + Len(frag) >= fragLen
  /\ data' = frag
  /\ IF ~fragLast
     THEN pc' = "hdr" /\ UNCHANGED result
     ELSE /\ pc' = "idle"
          /\ \E ok \in Accepted(frag) :
               result' = IF ok
                         THEN [call |-> ncalls, path |-> "ok",
                               val |-> SubSeq(frag, ReplyHdrLen + 1, Len(frag))]
                         ELSE [call |-> ncalls, path |-> "error", val |-> frag]
  /\ UNCHANGED <<torn, conn, ncalls, frag, fragLen, fragLast, inbound, stream, transit,
                 eof, reply>>

\* recv() returns the fragment; request() appends its payload and either
\* reads the next fragment or checks the reply header and returns: the
\* body when the check passes, the whole message when it raises.
RecvReturn ==
  /\ pc = "body"
  /\ 4 + Len(frag) >= fragLen
  /\ LET d == data \o frag IN
       /\ data' = d
       /\ IF ~fragLast
          THEN pc' = "hdr" /\ UNCHANGED result
          ELSE /\ pc' = "idle"
               /\ \E ok \in Accepted(d) :
                    result' = IF ok
                              THEN [call |-> ncalls, path |-> "ok",
                                    val |-> SubSeq(d, ReplyHdrLen + 1, Len(d))]
                              ELSE [call |-> ncalls, path |-> "error",
                                    val |-> d]
  /\ UNCHANGED <<torn, conn, ncalls, frag, fragLen, fragLast, inbound, stream, transit,
                 eof, reply>>

\* Mutant: a timed-out recv() yields b"" and the header loop reads again.
RecvTimeoutRetries ==
  /\ pc \in {"hdr", "body"}
  /\ Timeouts
  /\ stream = <<>>
  /\ ~eof
  /\ UNCHANGED vars

\* socket.timeout inside recv() is logged and recv() returns None; the
\* TypeError this causes in request() is logged and request() returns the
\* payload gathered so far.  The bytes of the fragment are dropped.
RecvTimeout ==
  /\ pc = "hdr" \/ (pc = "body" /\ 4 + Len(frag) < fragLen)
  /\ conn = "connected"
  /\ Timeouts
  /\ stream = <<>>
  /\ ~eof
  /\ pc' = "idle"
  /\ result' = [call |-> ncalls, val |-> data, path |-> "error"]
  /\ UNCHANGED <<torn, conn, ncalls, data, frag, fragLen, fragLast, inbound,
                 stream, transit, eof, reply>>

\* Once the peer has closed and the buffer is drained, recv(n) returns b""
\* at once; neither loop of recv() ends, and no timeout fires.
RecvEof ==
  /\ pc \in {"hdr", "body"}
  /\ conn = "connected"
  /\ eof
  /\ stream = <<>> /\ transit = <<>>
  /\ UNCHANGED vars

\* recv() on a socket that another thread has closed raises OSError, at
\* the latest when the poll under the socket timeout returns.  Both except
\* clauses run as for a timeout: request() returns the payload gathered so
\* far.  A fragment already read in full needs no recv().
RecvClosed ==
  /\ pc = "hdr" \/ (pc = "body" /\ 4 + Len(frag) < fragLen)
  /\ conn = "closed"
  /\ pc' = "idle"
  /\ result' = [call |-> ncalls, val |-> data, path |-> "error"]
  /\ UNCHANGED <<torn, conn, ncalls, data, frag, fragLen, fragLast, inbound,
                 stream, transit, eof, reply>>

\* release_all_rpc() on another thread: disconnect_all closes the socket
\* this object holds, whatever request() is doing with it.
ReleaseClose ==
  /\ ReleaseThread
  /\ conn = "connected"
  /\ conn' = "closed"
  /\ UNCHANGED <<torn, pc, ncalls, data, frag, fragLen, fragLast, result,
                 inbound, stream, transit, eof, reply>>

\* RPC.disconnect: self.client.close(), between two requests.
Disconnect ==
  /\ CallerCloses
  /\ pc = "idle"
  /\ conn = "connected"
  /\ conn' = "closed"
  /\ UNCHANGED <<torn, pc, ncalls, data, frag, fragLen, fragLast, result,
                 inbound, stream, transit, eof, reply>>

----------------------------------------------------------------------------
(* The server and the network.                                             *)

\* Bytes w leave the server: all of them reach the client's socket buffer
\* at once, or, on a slow network, a first piece of them, cut anywhere.
Arrive(w) ==
  \E k \in IF SlowNetwork THEN 1..Len(w) ELSE {Len(w)} :
    /\ stream' = stream \o SubSeq(w, 1, k)
    /\ transit' = SubSeq(w, k + 1, Len(w))

ServerReply ==
  /\ inbound # <<>>
  /\ ~eof
  /\ transit = <<>>
  /\ LET c == Head(inbound) IN
       \E n \in PayloadLens, ok \in IF Rejects THEN BOOLEAN ELSE {TRUE} :
         \E fs \in Fragmentations(n) :
           /\ Arrive(Wire(c, fs))
           /\ reply' = [reply EXCEPT ![c] = [frags |-> fs, ok |-> ok]]
           /\ inbound' = Tail(inbound)
  /\ UNCHANGED <<torn, conn, pc, ncalls, data, frag, fragLen, fragLast, result,
                 eof>>

\* The rest of a reply reaches the client's socket buffer.
Deliver ==
  /\ transit # <<>>
  /\ stream' = stream \o transit
  /\ transit' = <<>>
  /\ UNCHANGED <<torn, conn, pc, ncalls, data, frag, fragLen, fragLast, result,
                 inbound, eof, reply>>

ServerLose ==
  /\ ServerLoses
  /\ inbound # <<>>
  /\ inbound' = Tail(inbound)
  /\ UNCHANGED <<torn, conn, pc, ncalls, data, frag, fragLen, fragLast, result,
                 stream, transit, eof, reply>>

ServerClose ==
  /\ ServerCloses
  /\ ~eof
  /\ eof' = TRUE
  /\ inbound' = <<>>
  /\ UNCHANGED <<torn, conn, pc, ncalls, data, frag, fragLen, fragLast, result,
                 stream, transit, reply>>

\* The caller has made all its calls.
Done ==
  /\ pc = "idle"
  /\ ncalls = MaxCalls
  /\ UNCHANGED vars

Client == RecvHeader \/ RecvBody \/ RecvReturn \/ RecvTimeout \/ RecvClosed

Next ==
  \/ Request \/ Client \/ RecvEof \/ Disconnect \/ ReleaseClose
  \/ ServerReply \/ Deliver \/ ServerLose \/ ServerClose
  \/ Done

\* The client runs whenever it can; the server answers the calls it has
\* not lost; bytes in flight arrive; the socket timeout fires when
\* nothing arrives.
Spec == Init /\ [][Next]_vars /\ WF_vars(Client) /\ WF_vars(ServerReply)
          /\ WF_vars(Deliver)

----------------------------------------------------------------------------
(* Properties.                                                             *)

TypeOK ==
  /\ conn \in {"connected", "closed"}
  /\ pc \in {"idle", "hdr", "body"}
  /\ ncalls \in 0..MaxCalls
  /\ data \in Seq(Token) /\ frag \in Seq(Token)
  /\ fragLen \in {0} \cup FragLens \cup GarbageLens /\ fragLast \in BOOLEAN
  /\ result \in {NULL} \cup [call : Calls, val : Seq(Token),
                             path : {"ok", "error"}]
  /\ inbound \in Seq(Calls)
  /\ stream \in Seq(Token) /\ transit \in Seq(Token)
  /\ eof \in BOOLEAN /\ torn \in BOOLEAN
  /\ \A c \in Calls : reply[c] = NULL \/ reply[c].ok \in BOOLEAN

\* Whenever request() returns along its success path (rpc.py:122-126),
\* what it returns is exactly the body of the server's reply to the call
\* it has just sent: no byte of an earlier or later reply, none missing.
ReplyMatchesCall ==
  result # NULL /\ result.path = "ok" =>
    /\ reply[result.call] # NULL
    /\ reply[result.call].ok
    /\ result.val = Body(result.call)

\* A request() that does not get its accepted reply does not return as if
\* it had: transport and protocol errors are raised to the caller.
NoSilentFailure ==
  result # NULL => result.path = "ok"

\* The answer the server has given each call, as RpcService sees it: its
\* accept state and the body after the reply header.
Answers ==
  [c \in Calls |-> IF reply[c] = NULL THEN NULL
                   ELSE [ok |-> reply[c].ok, body |-> Body(c)]]

Service == INSTANCE RpcService WITH
  Values <- Seq(Token), busy <- pc # "idle", answer <- Answers

\* RPC.request and RPC.recv implement the service of RpcService: every
\* step of the byte stream is a step of the abstract connection or leaves
\* it unchanged, so request() returns its own call's accepted body, fails
\* only when that call has no accepted answer, and never returns for a
\* call other than the one it made.
RefinesService == Service!Spec

\* Every request() call eventually returns to its caller.
Termination ==
  pc # "idle" ~> pc = "idle"

=============================================================================
