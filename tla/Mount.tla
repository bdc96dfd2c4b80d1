------------------------------- MODULE Mount -------------------------------
(***************************************************************************)
(* The MOUNT v3 client of pyNfsClient (src/pyNfsClient/mount.py) against  *)
(* a mount daemon that keeps, for this client, the set of paths it has     *)
(* mounted.                                                                *)
(*                                                                         *)
(* Calls travel over one RPC connection (RpcTransport): the server answers *)
(* in order, and request() hands back whatever reply is next on the        *)
(* stream, because it never compares XIDs.  A call whose reply has not     *)
(* arrived when the socket timeout fires returns early; its reply stays on *)
(* the stream and is read by the next call.  Here a reply is one unit:     *)
(* the byte-level reassembly is the subject of RpcTransport.               *)
(*                                                                         *)
(* NULL and EXPORT change no state on either side; they are one action,    *)
(* Export, whose reply can still be misread by a later MNT.                *)
(*                                                                         *)
(* release_all_rpc() on another thread may close the object's socket at   *)
(* any time, and the caller may then connect() again: a new socket, with   *)
(* its own empty stream.  Calls are tagged with the socket they were sent  *)
(* on (conn), so the server's answer to a call of a closed socket is lost  *)
(* with it.                                                                *)
(***************************************************************************)
EXTENDS Naturals, Sequences

CONSTANTS
  Paths,      \* export paths the caller may pass to mnt()
  Exported,   \* the paths the server lets this client mount
  Timeouts,   \* the socket timeout may fire before a reply arrives
  MaxCalls,   \* RPCs the caller issues
  Releases,   \* release_all_rpc() may close the socket
  MaxConnects, \* sockets the object opens, the first one included
  NULL

ASSUME Exported \subseteq Paths /\ Timeouts \in BOOLEAN /\ MaxCalls \in Nat
ASSUME Releases \in BOOLEAN /\ MaxConnects \in Nat \ {0}

VARIABLES
  path,      \* self.path
  pending,   \* the call request() is waiting for, or NULL
  inbound,   \* calls the server has received and not yet handled
  wire,      \* replies sent by the server and not yet read by the client
  mounted,   \* the server's mount list entries for this client
  ncalls,    \* RPCs issued so far
  granted,   \* paths the server has ever answered MNT3_OK for
  sock,      \* self.client: "open", or "closed" by release_all_rpc()
  conns      \* sockets opened so far; the current one is conns

vars == <<path, pending, inbound, wire, mounted, ncalls, granted, sock, conns>>

Op == {"mnt", "umnt", "export"}
Call == [op : {"mnt", "umnt"}, arg : Paths] \cup [op : {"export"}, arg : {NULL}]
Status == {"OK", "ACCES"}
Conn == 1..MaxConnects
Sent == [op : Op, arg : Paths \cup {NULL}, conn : Conn]
Reply == [op : Op, arg : Paths \cup {NULL}, status : Status, conn : Conn]

Init ==
  /\ path = NULL
  /\ pending = NULL
  /\ inbound = <<>>
  /\ wire = <<>>
  /\ mounted = {}
  /\ ncalls = 0
  /\ granted = {}
  /\ sock = "open"
  /\ conns = 1

\* request(): the call goes out and the caller waits for a reply.  On a
\* closed socket send() raises, and request() returns its own argument
\* bytes: mnt() decodes len(path) as the status, which is an error status
\* or, for an empty path, MNT3_OK followed by a failed read of the handle;
\* umnt() returns MNT3_OK; export() decodes None and raises.  None of them
\* reaches the server or changes self.path.
Send(c) ==
  /\ pending = NULL
  /\ ncalls < MaxCalls
  /\ ncalls' = ncalls + 1
  /\ \/ /\ sock = "open"
        /\ inbound' = Append(inbound, [op |-> c.op, arg |-> c.arg, conn |-> conns])
        /\ pending' = c
     \/ /\ sock = "closed"
        /\ UNCHANGED <<inbound, pending>>
  /\ UNCHANGED <<sock, conns>>

----------------------------------------------------------------------------
(* The client.                                                             *)

\* mnt(path): the request goes out with the path as argument.
Mnt(p) ==
  /\ Send([op |-> "mnt", arg |-> p])
  /\ UNCHANGED <<path, wire, mounted, granted>>

\* Mutant: umnt() forgets self.path before it builds the request from it.
UmntResetFirst ==
  \/ /\ pending = NULL
     /\ path = NULL
     /\ UNCHANGED vars
  \/ /\ path # NULL
     /\ Send([op |-> "umnt", arg |-> NULL])
     /\ path' = NULL
     /\ UNCHANGED <<wire, mounted, granted>>

\* umnt(): without a remembered path it returns MNT3ERR_NOTSUPP at once;
\* otherwise it sends UMNT for self.path.
Umnt ==
  \/ /\ pending = NULL
     /\ path = NULL
     /\ UNCHANGED vars
  \/ /\ path # NULL
     /\ Send([op |-> "umnt", arg |-> path])
     /\ UNCHANGED <<path, wire, mounted, granted>>

\* null() and export(): the request carries no argument.
Export ==
  /\ Send([op |-> "export", arg |-> NULL])
  /\ UNCHANGED <<path, wire, mounted, granted>>

\* What unpack_mountres3() makes of the reply mnt() reads: only the reply
\* to an MNT decodes as a mountres3; an EXPORT body starts with a
\* value-follows word or ends at once, a UMNT body is empty, and both make
\* the unpacker raise or report an error status.
MntSucceeds(r) == r.op = "mnt" /\ r.status = "OK"

\* request() returns the next reply on the stream.  mnt() remembers its own
\* argument as self.path when the reply decodes as MNT3_OK; umnt() and
\* export() leave self.path alone.
MntReturn(r) ==
  /\ pending' = NULL
  /\ path' = IF pending.op = "mnt" /\ MntSucceeds(r) THEN pending.arg
             ELSE path

\* Mutant: request() waits for the reply whose XID matches its call, but
\* leaves a reply with another XID on the stream.
ReceiveMatchingOnly ==
  /\ pending # NULL
  /\ sock = "open"
  /\ wire # <<>>
  /\ Head(wire).op = pending.op /\ Head(wire).arg = pending.arg
  /\ MntReturn(Head(wire))
  /\ wire' = Tail(wire)
  /\ UNCHANGED <<inbound, mounted, ncalls, granted, sock, conns>>

Receive ==
  /\ pending # NULL
  /\ sock = "open"
  /\ wire # <<>>
  /\ MntReturn(Head(wire))
  /\ wire' = Tail(wire)
  /\ UNCHANGED <<inbound, mounted, ncalls, granted, sock, conns>>

\* The socket timeout fires before the reply arrives: request() logs the
\* error and returns what it has, mnt() fails to decode it and raises.
Timeout ==
  /\ Timeouts
  /\ pending # NULL
  /\ sock = "open"
  /\ wire = <<>>
  /\ pending' = NULL
  /\ UNCHANGED <<path, inbound, wire, mounted, ncalls, granted, sock, conns>>

\* recv() on a socket release_all_rpc() has closed raises at once; recv()
\* logs it and returns None, request() fails on None[:4] and returns b'',
\* which mnt() and export() fail to decode.  self.path is unchanged.
RecvFails ==
  /\ pending # NULL
  /\ sock = "closed"
  /\ pending' = NULL
  /\ UNCHANGED <<path, inbound, wire, mounted, ncalls, granted, sock, conns>>

----------------------------------------------------------------------------
(* The socket.                                                             *)

\* release_all_rpc() on another thread: item.client.close() for every
\* registered object, this one included.
Release ==
  /\ Releases
  /\ sock = "open"
  /\ sock' = "closed"
  /\ UNCHANGED <<path, pending, inbound, wire, mounted, ncalls, granted, conns>>

\* The caller connect()s again between calls: self.client is a new socket,
\* so nothing sent to the closed one can be read from it.
Reconnect ==
  /\ sock = "closed"
  /\ pending = NULL
  /\ conns < MaxConnects
  /\ sock' = "open"
  /\ conns' = conns + 1
  /\ wire' = <<>>
  /\ UNCHANGED <<path, pending, inbound, mounted, ncalls, granted>>

----------------------------------------------------------------------------
(* The mount daemon.                                                       *)

\* MNT adds an entry to the mount list when the path is exported to this
\* client; UMNT removes it; EXPORT changes nothing.  A call already
\* received is handled even when its socket has since been closed; the
\* reply then goes nowhere.
Serve ==
  /\ inbound # <<>>
  /\ LET c == Head(inbound)
         ok == c.op # "mnt" \/ c.arg \in Exported
     IN  /\ mounted' = CASE c.op = "mnt" /\ ok -> mounted \cup {c.arg}
                         [] c.op = "umnt"     -> mounted \ {c.arg}
                         [] OTHER             -> mounted
         /\ granted' = IF c.op = "mnt" /\ ok THEN granted \cup {c.arg}
                       ELSE granted
         /\ wire' = IF c.conn = conns /\ sock = "open"
                    THEN Append(wire, [op |-> c.op, arg |-> c.arg, conn |-> c.conn,
                                       status |-> IF ok THEN "OK" ELSE "ACCES"])
                    ELSE wire
  /\ inbound' = Tail(inbound)
  /\ UNCHANGED <<path, pending, ncalls, sock, conns>>

Done ==
  /\ pending = NULL
  /\ ncalls = MaxCalls
  /\ inbound = <<>>
  /\ UNCHANGED vars

Next ==
  \/ \E p \in Paths : Mnt(p)
  \/ Umnt \/ Export \/ Receive \/ Timeout \/ RecvFails
  \/ Release \/ Reconnect
  \/ Serve
  \/ Done

Spec == Init /\ [][Next]_vars /\ WF_vars(Receive) /\ WF_vars(Serve) /\ WF_vars(RecvFails)

----------------------------------------------------------------------------
(* Properties.                                                             *)

TypeOK ==
  /\ path \in Paths \cup {NULL}
  /\ pending \in Call \cup {NULL}
  /\ inbound \in Seq(Sent)
  /\ wire \in Seq(Reply)
  /\ mounted \subseteq Paths /\ granted \subseteq Paths
  /\ ncalls \in 0..MaxCalls
  /\ sock \in {"open", "closed"} /\ conns \in Conn

\* Every request() returns to its caller: with the reply of its own call,
\* with the reply of an earlier call that timed out, or by timing out.
CallsReturn ==
  pending # NULL ~> pending = NULL

\* mnt() remembers a path (the one umnt() will later unmount) only after
\* the server has answered MNT3_OK for that very path.
PathWasGranted ==
  path # NULL => path \in granted

\* Between calls, the client's idea of what is mounted (self.path) is the
\* server's mount list for it: Mounted(path) exactly when the server holds
\* path, NotMounted exactly when it holds nothing.
MountStateAgrees ==
  pending = NULL /\ inbound = <<>> /\ wire = <<>> =>
    mounted = IF path = NULL THEN {} ELSE {path}

=============================================================================
