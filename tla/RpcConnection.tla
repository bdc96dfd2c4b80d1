-------------------------- MODULE RpcConnection ---------------------------
(***************************************************************************)
(* Socket lifecycle of pyNfsClient's RPC objects (src/pyNfsClient/rpc.py)  *)
(* and the process-wide registry behind release_all_rpc().                 *)
(*                                                                         *)
(* Each RPC object (Portmap, Mount, NFSv3 are subclasses) is driven by its *)
(* own caller thread: connect() creates a socket, binds it to a random     *)
(* privileged port in a loop until a bind succeeds, connects it and        *)
(* appends the object to RPC.connections; disconnect() closes the socket.  *)
(* Another thread may call release_all_rpc(), which walks RPC.connections  *)
(* and closes each object's current socket.  Steps of different threads   *)
(* interleave at the granularity of these statements.                      *)
(*                                                                         *)
(* connect() on an object that already has a socket replaces self.client; *)
(* the old socket is then unreferenced and CPython's reference counting    *)
(* closes it, so an object holds at most one open socket.                  *)
(***************************************************************************)
EXTENDS Naturals, Sequences, SequencesExt, FiniteSets

CONSTANTS
  Objects,        \* RPC objects of the process
  Ports,          \* the privileged source ports 500..1023
  ForeignPorts,   \* ports other processes of the host keep bound
  Privileged,     \* the process may bind ports below 1024
  ConnectFails,   \* socket.connect() to the server may raise
  MaxConnects,    \* connect() calls per object
  MaxReleases,    \* release_all_rpc() calls
  NULL

ASSUME ForeignPorts \subseteq Ports
ASSUME Privileged \in BOOLEAN /\ ConnectFails \in BOOLEAN
ASSUME MaxConnects \in Nat /\ MaxReleases \in Nat

VARIABLES
  pc,        \* pc[o]: "idle", or the step of connect() o's thread is at
  client,    \* client[o]: NULL or o's socket [gen, port, open]
  conns,     \* RPC.connections
  relPc,     \* "idle" or "loop": the release_all_rpc() thread
  relIdx,    \* the for-loop's position in RPC.connections
  nrel,      \* release_all_rpc() calls made
  snap,      \* sockets registered and open when the release began
  held       \* open sockets bound to a port, of objects not in connect()

vars == <<pc, client, conns, relPc, relIdx, nrel, snap, held>>

Socket == [gen : 1..MaxConnects, port : Ports \cup {NULL}, open : BOOLEAN]

\* Ports bound by an open socket of this process.
OwnPorts == {client[o].port : o \in {x \in Objects : client[x] # NULL
                                                  /\ client[x].open}}

\* socket.bind(('', p)) succeeds: a socket is bound at most once, and
\* bind() on a closed socket raises EBADF.
Bindable(o, p) ==
  /\ client[o].open
  /\ client[o].port = NULL
  /\ Privileged
  /\ p \notin ForeignPorts
  /\ p \notin OwnPorts

Init ==
  /\ pc = [o \in Objects |-> "idle"]
  /\ client = [o \in Objects |-> NULL]
  /\ conns = <<>>
  /\ relPc = "idle"
  /\ relIdx = 0
  /\ nrel = 0
  /\ snap = {}
  /\ held = {}

----------------------------------------------------------------------------
(* RPC.connect                                                             *)

\* socket.socket() and settimeout(); the previous socket, if any, is freed.
Connect(o) ==
  /\ pc[o] = "idle"
  /\ (IF client[o] = NULL THEN 0 ELSE client[o].gen) < MaxConnects
  /\ client' = [client EXCEPT ![o] =
                  [gen |-> IF @ = NULL THEN 1 ELSE @.gen + 1,
                   port |-> NULL, open |-> TRUE]]
  /\ pc' = [pc EXCEPT ![o] = "bind"]
  /\ UNCHANGED <<conns, relPc, relIdx, nrel, snap, held>>

\* One turn of the `while True` loop: randint(500, 1023) picks p and bind
\* succeeds, ending the loop ...
\* Mutant: the port range shifted by one, randint(501, 1024).
BindOkNextPort(o, p) ==
  /\ pc[o] = "bind"
  /\ Bindable(o, p)
  /\ client' = [client EXCEPT ![o].port = p + 1]
  /\ pc' = [pc EXCEPT ![o] = "connect"]
  /\ UNCHANGED <<conns, relPc, relIdx, nrel, snap, held>>

BindOk(o, p) ==
  /\ pc[o] = "bind"
  /\ Bindable(o, p)
  /\ client' = [client EXCEPT ![o].port = p]
  /\ pc' = [pc EXCEPT ![o] = "connect"]
  /\ UNCHANGED <<conns, relPc, relIdx, nrel, snap, held>>

\* ... or bind raises, the bare except logs a warning and loops again.
BindFail(o, p) ==
  /\ pc[o] = "bind"
  /\ ~Bindable(o, p)
  /\ UNCHANGED vars

Bind(o) == \E p \in Ports : BindOk(o, p) \/ BindFail(o, p)

\* self.client.connect(): on success the object is appended to
\* RPC.connections; when it raises (always, on a socket closed meanwhile),
\* connect() propagates the error and the socket stays in self.client,
\* unregistered.
ConnectSocket(o) ==
  /\ pc[o] = "connect"
  /\ \/ client[o].open /\ pc' = [pc EXCEPT ![o] = "register"]
     \/ /\ ConnectFails \/ ~client[o].open
        /\ pc' = [pc EXCEPT ![o] = "idle"]
  /\ UNCHANGED <<client, conns, relPc, relIdx, nrel, snap, held>>

Register(o) ==
  /\ pc[o] = "register"
  /\ conns' = Append(conns, o)
  /\ pc' = [pc EXCEPT ![o] = "idle"]
  /\ UNCHANGED <<client, relPc, relIdx, nrel, snap, held>>

\* RPC.disconnect: self.client.close().  The object stays in the registry.
Disconnect(o) ==
  /\ pc[o] = "idle"
  /\ client[o] # NULL
  /\ client[o].open
  /\ client' = [client EXCEPT ![o].open = FALSE]
  /\ UNCHANGED <<pc, conns, relPc, relIdx, nrel, snap, held>>

----------------------------------------------------------------------------
(* release_all_rpc(): RPC.disconnect_all                                   *)

ReleaseStart ==
  /\ relPc = "idle"
  /\ nrel < MaxReleases
  /\ relPc' = "loop"
  /\ relIdx' = 1
  /\ nrel' = nrel + 1
  /\ snap' = {<<o, client[o].gen>> :
                o \in {x \in ToSet(conns) : client[x].open}}
  /\ held' = {<<o, client[o].gen>> :
                o \in {x \in Objects : /\ pc[x] = "idle"
                                        /\ client[x] # NULL
                                        /\ client[x].open
                                        /\ client[x].port # NULL}}
  /\ UNCHANGED <<pc, client, conns>>

\* One turn of `for item in cls.connections`: the list is walked by index
\* while other threads may append to it; item.client.close() closes the
\* object's current socket (closing a closed socket does nothing).
ReleaseStep ==
  /\ relPc = "loop"
  /\ relIdx <= Len(conns)
  /\ client' = [client EXCEPT ![conns[relIdx]].open = FALSE]
  /\ relIdx' = relIdx + 1
  /\ UNCHANGED <<pc, conns, relPc, nrel, snap, held>>

\* Mutant: the loop stops before the last entry of the registry.
ReleaseEndEarly ==
  /\ relPc = "loop"
  /\ relIdx >= Len(conns)
  /\ relPc' = "idle"
  /\ UNCHANGED <<pc, client, conns, relIdx, nrel, snap, held>>

ReleaseEnd ==
  /\ relPc = "loop"
  /\ relIdx > Len(conns)
  /\ relPc' = "idle"
  /\ UNCHANGED <<pc, client, conns, relIdx, nrel, snap, held>>

\* Every thread has finished its calls.
Done ==
  /\ \A o \in Objects : pc[o] = "idle"
  /\ relPc = "idle"
  /\ UNCHANGED vars

Next ==
  \/ \E o \in Objects :
       Connect(o) \/ Bind(o) \/ ConnectSocket(o) \/ Register(o)
       \/ Disconnect(o)
  \/ ReleaseStart \/ ReleaseStep \/ ReleaseEnd
  \/ Done

\* Threads run when they can.  randint() draws every port again and again,
\* so a port that is free again and again is eventually drawn: strong
\* fairness for each successful bind.
Fairness ==
  /\ \A o \in Objects :
       /\ WF_vars(ConnectSocket(o) \/ Register(o))
       /\ \A p \in Ports : SF_vars(BindOk(o, p))
  /\ WF_vars(ReleaseStep \/ ReleaseEnd)

Spec == Init /\ [][Next]_vars /\ Fairness

----------------------------------------------------------------------------
(* Properties.                                                             *)

TypeOK ==
  /\ pc \in [Objects -> {"idle", "bind", "connect", "register"}]
  /\ client \in [Objects -> Socket \cup {NULL}]
  /\ conns \in Seq(Objects)
  /\ relPc \in {"idle", "loop"}
  /\ relIdx \in Nat /\ nrel \in 0..MaxReleases
  /\ snap \cup held \subseteq Objects \X (1..MaxConnects)

\* Socket s = <<o, gen>> is no longer open: closed, or replaced by a newer
\* socket of o (and freed with the object's reference to it).
Closed(s) == client[s[1]].gen # s[2] \/ ~client[s[1]].open

\* When release_all_rpc() returns, every socket that was registered and open
\* when it was called is closed, whatever the other threads did meanwhile
\* (connect, reconnect, disconnect, append to RPC.connections).
ReleaseClosesRegistered ==
  [][ReleaseEnd => \A s \in snap : Closed(s)']_vars

\* release_all_rpc() frees every privileged port the process holds when it
\* is called (the cleanup the registry exists for), when no connect() is
\* in progress: including the port of a socket whose connect() raised
\* after its bind succeeded.
ReleaseFreesPorts ==
  [][ReleaseEnd => \A s \in held : Closed(s)']_vars

\* Every connect() gets past its bind loop.
ConnectTerminates ==
  \A o \in Objects : pc[o] = "bind" ~> pc[o] # "bind"

=============================================================================
