---------------------------- MODULE RpcService ----------------------------
(***************************************************************************)
(* What one RPC connection of pyNfsClient promises its callers (MOUNT,     *)
(* NFSv3 and PORTMAP all call RPC.request on a connection of their own):   *)
(*                                                                         *)
(*   - calls are made one at a time: request() returns before the next    *)
(*     one starts;                                                         *)
(*   - the server gives each call at most one answer, accepted or not;     *)
(*   - a call returns successfully only with the body of its own accepted *)
(*     answer, and fails only when it has no accepted answer.              *)
(*                                                                         *)
(* Nothing is said about how the answer travels; RpcTransport, the record- *)
(* marked byte stream of rpc.py, is shown to implement this module.        *)
(***************************************************************************)
EXTENDS Naturals

CONSTANTS
  MaxCalls,   \* number of calls the caller makes
  Values,     \* the byte strings a call may return or an answer may carry
  NULL

Calls == 1..MaxCalls

VARIABLES
  busy,       \* a call has been made and has not returned
  ncalls,     \* calls made so far; the current one is ncalls
  result,     \* what the last call returned: [call, path, val] or NULL
  answer      \* answer[c]: NULL, or [ok, body] the server gave call c

vars == <<busy, ncalls, result, answer>>

Answered(c) == answer[c] # NULL /\ answer[c].ok

Init ==
  /\ busy = FALSE
  /\ ncalls = 0
  /\ result = NULL
  /\ answer = [c \in Calls |-> NULL]

\* A call is made and goes out to the server.
Call ==
  /\ ~busy
  /\ ncalls < MaxCalls
  /\ busy' = TRUE
  /\ ncalls' = ncalls + 1
  /\ UNCHANGED <<result, answer>>

\* A call that cannot be sent fails at once.
Refuse ==
  /\ ~busy
  /\ ncalls < MaxCalls
  /\ ncalls' = ncalls + 1
  /\ result' \in [call : {ncalls + 1}, path : {"error"}, val : Values]
  /\ UNCHANGED <<busy, answer>>

\* The server answers a call that has been made, once.
Answer(c) ==
  /\ c <= ncalls
  /\ answer[c] = NULL
  /\ answer'[c] \in [ok : BOOLEAN, body : Values]
  /\ answer' = [answer EXCEPT ![c] = answer'[c]]
  /\ UNCHANGED <<busy, ncalls, result>>

\* The current call returns: with its own answer's body when the server
\* accepted it, and otherwise with an error.
Return ==
  /\ busy
  /\ busy' = FALSE
  /\ \/ /\ Answered(ncalls)
        /\ result' = [call |-> ncalls, path |-> "ok", val |-> answer[ncalls].body]
     \/ /\ ~Answered(ncalls)
        /\ result' \in [call : {ncalls}, path : {"error"}, val : Values]
  /\ UNCHANGED <<ncalls, answer>>

Next == Call \/ Refuse \/ (\E c \in Calls : Answer(c)) \/ Return

Spec == Init /\ [][Next]_vars

=============================================================================
