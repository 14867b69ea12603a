--------------------------- MODULE ConfigRegistry ---------------------------
(***************************************************************************)
(* What the gateway promises to the clients of its configuration store:    *)
(* a catalogue of immutable published versions and one register that names *)
(* the active one.  Publish appends a version and makes it the active one, *)
(* rollback makes an existing version active again, a poll returns the     *)
(* active one.  Each request takes effect at one instant between its call  *)
(* and its answer, or not at all; an answer that reports success is only   *)
(* given for a request that took effect.                                   *)
(***************************************************************************)
EXTENDS Integers, Sequences

CONSTANTS
  Clients,    \* the clients; each has at most one request under way
  Requests,   \* the requests a client may send
  NoRequest   \* the request of a client that waits for nothing

VARIABLES
  catalog,    \* catalog[v] : "v1", or "v2" if version v carries a v2 policy too
  active,     \* the active version, 0 before the first publish
  request,    \* request[c] : the last request of c
  phase,      \* phase[c] : idle, pending (no effect yet) or settled
  answer      \* answer[c] : a version, 0 for the default policy, or an error

vars == <<catalog, active, request, phase, answer>>

\* The request failed, or its outcome is unknown to the client.
Failed == -1
\* The request failed, the target of a rollback being reported as unknown.
Missing == -2

Init ==
  /\ catalog = <<>>
  /\ active = 0
  /\ request = [c \in Clients |-> NoRequest]
  /\ phase = [c \in Clients |-> "idle"]
  /\ answer = [c \in Clients |-> Failed]

\* c sends a request; its answer is open until the request is settled.
Call(c) ==
  /\ phase[c] = "idle"
  /\ phase' = [phase EXCEPT ![c] = "pending"]
  /\ \E r \in Requests : request' = [request EXCEPT ![c] = r]
  /\ UNCHANGED <<catalog, active, answer>>

\* The request of c is settled and a is the answer it will get.
Settle(c, a) ==
  /\ phase[c] = "pending"
  /\ phase' = [phase EXCEPT ![c] = "settled"]
  /\ answer' = [answer EXCEPT ![c] = a]
  /\ UNCHANGED request

Publish(c) ==
  /\ request[c].op = "publish"
  /\ catalog' = Append(catalog, request[c].dsl)
  /\ active' = Len(catalog) + 1
  /\ Settle(c, Len(catalog) + 1)

Rollback(c) ==
  /\ request[c].op = "rollback"
  /\ request[c].target \in 1 .. Len(catalog)
  /\ active' = request[c].target
  /\ UNCHANGED catalog
  /\ Settle(c, request[c].target)

\* A v2 poll of a version published without a v2 policy gets the default.
Poll(c) ==
  /\ request[c].op = "poll"
  /\ UNCHANGED <<catalog, active>>
  /\ Settle(c, IF active # 0 /\ request[c].dsl = "v2" /\ catalog[active] = "v1"
               THEN 0 ELSE active)

\* The request has no effect and c will be told so.
Reject(c) ==
  /\ UNCHANGED <<catalog, active>>
  /\ \/ Settle(c, Failed)
     \/ request[c].op = "rollback" /\ Settle(c, Missing)

\* c gets its answer.
Return(c) ==
  /\ phase[c] = "settled"
  /\ phase' = [phase EXCEPT ![c] = "idle"]
  /\ request' = [request EXCEPT ![c] = NoRequest]
  /\ answer' = [answer EXCEPT ![c] = Failed]
  /\ UNCHANGED <<catalog, active>>

\* A success the client will not hear of: the request took effect but its
\* answer reports a failure.
Forget(c) ==
  /\ phase[c] = "settled"
  /\ answer' = [answer EXCEPT ![c] = Failed]
  /\ UNCHANGED <<catalog, active, request, phase>>

\* The server stops: whoever waits for an answer does not get one.
Restart ==
  /\ phase' = [c \in Clients |-> "idle"]
  /\ request' = [c \in Clients |-> NoRequest]
  /\ answer' = [c \in Clients |-> Failed]
  /\ UNCHANGED <<catalog, active>>

Next ==
  \/ \E c \in Clients : \/ Call(c)
                        \/ Publish(c)
                        \/ Rollback(c)
                        \/ Poll(c)
                        \/ Reject(c)
                        \/ Return(c)
                        \/ Forget(c)
  \/ Restart

Spec == Init /\ [][Next]_vars
=============================================================================
