-------------------------- MODULE RegistryExchange --------------------------
(***************************************************************************)
(* One call of the registry in detail: performCurlRequest at one end, the  *)
(* socket, the accept loop and a detached handler thread at the other.     *)
(* Module Directory has the processes that make the calls and takes a call *)
(* as a step that happens or fails.                                        *)
(*                                                                         *)
(*  - "requests" holds the calls whose handler has yet to process them.    *)
(*  - curl may send the headers and the body apart; the handler reads what *)
(*    has come, once.                                                      *)
(***************************************************************************)
EXTENDS NexusRegistryServer, SequencesExt

CONSTANTS
    Payloads,     \* what is asked: [action, name, addr, coords]
    None,         \* no payload, no reply, no result
    MaxCalls,     \* bound: how many calls are made
    Backlog,      \* the second argument of listen
    MaxRestarts   \* bound: how often the registry is started again

CallId == 1 .. MaxCalls
Actions == {"register", "deregister", "update", "list", "getPublicKey"}

(* What is listed, and what is replied and told.                           *)
Entries == [at : Nat, name : STRING, addr : {r.addr : r \in Payloads},
            coords : {r.coords : r \in Payloads}]
Replies ==
    [kind : {"message", "list", "publicKey", "error", "failed", "exception",
             "no nodes", "done"},
     entries : SUBSET Entries]

ASSUME ExchangeAssumption ==
    /\ \A r \in Payloads : r.action \in Actions /\ r.name \in STRING
    /\ None \notin Payloads \cup Replies
    /\ MaxCalls \in Nat
    /\ Backlog \in Nat \ {0}
    /\ MaxRestarts \in Nat

VARIABLES
    server,     \* whether the registry listens
    starts,     \* how often it was started
    backlog,    \* connections it has not accepted yet
    payload,    \* what each call asks
    client,     \* where the caller is in performCurlRequest
    sent,       \* what has reached the socket of the registry
    handler,    \* where the handler thread of the call is
    body,       \* whether that thread has read the body
    reply,      \* what it has replied
    result      \* what the caller was told

serverVars == <<server, starts, backlog>>
clientVars == <<payload, client, sent, result>>
handlerVars == <<handler, body, reply>>
vars == <<registryVars, serverVars, clientVars, handlerVars>>

Service == INSTANCE RegistryService

TypeOK ==
    /\ registry \subseteq Entries
    /\ pushes \in Nat
    /\ requests \subseteq CallId
    /\ server \in {"down", "listening"}
    /\ starts \in 0 .. MaxRestarts + 1
    /\ backlog \in Seq(CallId) /\ Len(backlog) <= Backlog
    /\ payload \in [CallId -> Payloads \cup {None}]
    /\ client \in [CallId -> {"none", "connecting", "connected", "returned"}]
    /\ sent \in [CallId -> {"nothing", "headers", "all"}]
    /\ handler \in [CallId -> {"none", "recv", "process", "write", "closed", "lost"}]
    /\ body \in [CallId -> BOOLEAN]
    /\ reply \in [CallId -> Replies \cup {None}]
    /\ result \in [CallId -> Replies \cup {None}]

Init ==
    /\ RegistryInit
    /\ server = "down"
    /\ starts = 0
    /\ backlog = <<>>
    /\ payload = [k \in CallId |-> None]
    /\ client = [k \in CallId |-> "none"]
    /\ sent = [k \in CallId |-> "nothing"]
    /\ handler = [k \in CallId |-> "none"]
    /\ body = [k \in CallId |-> FALSE]
    /\ reply = [k \in CallId |-> None]
    /\ result = [k \in CallId |-> None]
-----------------------------------------------------------------------------
(* The caller.                                                             *)

(* Calls are numbered in the order they are made.                          *)
Call(k, r) ==
    /\ client[k] = "none"
    /\ \A j \in 1 .. (k - 1) : client[j] # "none"
    /\ payload' = [payload EXCEPT ![k] = r]
    /\ client' = [client EXCEPT ![k] = "connecting"]
    /\ requests' = requests \cup {k}
    /\ UNCHANGED <<registry, pushes, serverVars, sent, result, handlerVars>>

\* mutant: one connection more than the backlog
ConnectOneMore(k) ==
    /\ client[k] = "connecting"
    /\ server = "listening"
    /\ Len(backlog) <= Backlog
    /\ backlog' = Append(backlog, k)
    /\ client' = [client EXCEPT ![k] = "connected"]
    /\ UNCHANGED <<registryVars, server, starts, payload, sent, result,
                   handlerVars>>

(* The kernel accepts for the registry while there is room.                *)
Connect(k) ==
    /\ client[k] = "connecting"
    /\ server = "listening"
    /\ Len(backlog) < Backlog
    /\ backlog' = Append(backlog, k)
    /\ client' = [client EXCEPT ![k] = "connected"]
    /\ UNCHANGED <<registryVars, server, starts, payload, sent, result,
                   handlerVars>>

SendHeaders(k) ==
    /\ client[k] = "connected"
    /\ sent[k] = "nothing"
    /\ sent' = [sent EXCEPT ![k] = "headers"]
    /\ UNCHANGED <<registryVars, serverVars, payload, client, result, handlerVars>>

SendBody(k) ==
    /\ client[k] = "connected"
    /\ sent[k] = "headers"
    /\ sent' = [sent EXCEPT ![k] = "all"]
    /\ UNCHANGED <<registryVars, serverVars, payload, client, result, handlerVars>>

GetsBack(k, answer) ==
    /\ client' = [client EXCEPT ![k] = "returned"]
    /\ result' = [result EXCEPT ![k] = Service!Outcome(payload[k], answer)]

(* The status is 200 whatever the reply says, and Outcome looks no further. *)
Receive(k) ==
    /\ client[k] = "connected"
    /\ handler[k] = "closed"
    /\ GetsBack(k, reply[k])
    /\ UNCHANGED <<registryVars, serverVars, payload, sent, handlerVars>>

(* Nobody listens, the registry has ended, or it has closed the connection *)
(* with something in it that it had not read.                              *)
IsReset(k) ==
    \/ client[k] = "connecting" /\ server = "down"
    \/ client[k] = "connected" /\ handler[k] = "lost"
    \/ client[k] = "connected" /\ handler[k] = "closed" /\ ~body[k] /\ sent[k] = "all"

(* A caller that is not connected yet leaves nothing behind.               *)
PerformFails(k) ==
    /\ GetsBack(k, Service!Failed)
    /\ requests' = IF client[k] = "connecting" THEN requests \ {k} ELSE requests
    /\ UNCHANGED <<registry, pushes, serverVars, payload, sent, handlerVars>>

ConnectionFails(k) ==
    /\ IsReset(k)
    /\ PerformFails(k)

\* mutant: no CURLOPT_TIMEOUT
TimesOutConnecting(k) ==
    /\ client[k] = "connecting"
    /\ PerformFails(k)

(* CURLOPT_CONNECTTIMEOUT and CURLOPT_TIMEOUT.                             *)
TimesOut(k) ==
    /\ client[k] \in {"connecting", "connected"}
    /\ PerformFails(k)
-----------------------------------------------------------------------------
(* The registry.                                                           *)

(* start(), if socket, bind and listen succeed; else the program ends.     *)
Start ==
    /\ server = "down"
    /\ starts <= MaxRestarts
    /\ server' = "listening"
    /\ starts' = starts + 1
    /\ UNCHANGED <<registryVars, backlog, clientVars, handlerVars>>

(* accept, and a detached thread.                                          *)
Accept ==
    /\ server = "listening"
    /\ backlog # <<>>
    /\ handler' = [handler EXCEPT ![Head(backlog)] = "recv"]
    /\ backlog' = Tail(backlog)
    /\ UNCHANGED <<registryVars, server, starts, clientVars, body, reply>>

\* mutant: recv again until the body has come
ReadWholeRequest(k) ==
    /\ handler[k] = "recv"
    /\ sent[k] = "all"
    /\ body' = [body EXCEPT ![k] = TRUE]
    /\ handler' = [handler EXCEPT ![k] = "process"]
    /\ UNCHANGED <<registryVars, serverVars, clientVars, reply>>

(***************************************************************************)
(* One recv, which takes what has come; it returns 0 if the caller has     *)
(* gone without a word.  Headers alone are a request without a body.       *)
(***************************************************************************)
ReadFromSocket(k) ==
    /\ handler[k] = "recv"
    /\ sent[k] # "nothing" \/ client[k] = "returned"
    /\ body' = [body EXCEPT ![k] = sent[k] = "all"]
    /\ handler' = [handler EXCEPT ![k] = "process"]
    /\ UNCHANGED <<registryVars, serverVars, clientVars, reply>>

\* mutant: the handler goes round again
RespondAndGoOn(k, answer) ==
    /\ reply' = [reply EXCEPT ![k] = answer]
    /\ requests' = requests \ {k}
    /\ UNCHANGED handler

Respond(k, answer) ==
    /\ reply' = [reply EXCEPT ![k] = answer]
    /\ requests' = requests \ {k}
    /\ handler' = [handler EXCEPT ![k] = "write"]

(* processRequest, or the error for what is not JSON.                      *)
Process(k) ==
    /\ handler[k] = "process"
    /\ \/ body[k] /\ ProcessRequest(payload[k]) /\ Respond(k, Reply(payload[k]))
       \/ ~body[k] /\ Respond(k, Error) /\ UNCHANGED <<registry, pushes>>
    /\ UNCHANGED <<serverVars, clientVars, body>>

(* send and close.                                                         *)
WriteToSocket(k) ==
    /\ handler[k] = "write"
    /\ handler' = [handler EXCEPT ![k] = "closed"]
    /\ UNCHANGED <<registryVars, serverVars, clientVars, body, reply>>

HandleClient(k) == ReadFromSocket(k) \/ Process(k) \/ WriteToSocket(k)

(* The registry is killed: what it had in memory and its sockets go.       *)
HasConnection(k) ==
    \/ k \in Range(backlog)
    \/ handler[k] \in {"recv", "process", "write"}

Kill ==
    /\ server = "listening"
    /\ server' = "down"
    /\ registry' = {}
    /\ backlog' = <<>>
    /\ handler' = [k \in CallId |-> IF HasConnection(k) THEN "lost" ELSE handler[k]]
    /\ requests' = {k \in requests : ~HasConnection(k)}
    /\ UNCHANGED <<pushes, starts, clientVars, body, reply>>
-----------------------------------------------------------------------------
Caller(k) ==
    \/ Connect(k) \/ SendHeaders(k) \/ SendBody(k)
    \/ Receive(k) \/ ConnectionFails(k) \/ TimesOut(k)

Next ==
    \/ \E k \in CallId : \/ \E r \in Payloads : Call(k, r)
                         \/ Caller(k)
                         \/ HandleClient(k)
    \/ Accept
    \/ Start
    \/ Kill

(* A caller goes on, in the end by its timers; nothing is assumed of the   *)
(* registry.                                                               *)
Fairness == \A k \in CallId : WF_vars(Caller(k))

Spec == Init /\ [][Next]_vars /\ Fairness
-----------------------------------------------------------------------------
(* Properties.                                                             *)

(***************************************************************************)
(* ServiceImplemented: every call takes effect once, between its being     *)
(* made and what its caller is told, or not at all, whatever the timers,   *)
(* the handler threads and a restart do.                                   *)
(***************************************************************************)
ServiceImplemented == Service!Spec

(***************************************************************************)
(* AcknowledgedIsListed: what registerNodeWithRegistry's "true" is worth.  *)
(* While the registry goes on running and nobody removes or updates, there *)
(* is one case only in which a node that was acknowledged is not listed as *)
(* asked: the handler had read the headers without the body, and the error *)
(* it replied counts as success.                                           *)
(***************************************************************************)
Acknowledged(k) ==
    /\ result[k] # None
    /\ result[k].kind = "done"
    /\ payload[k].action = "register"
LeavesEntries(j) ==
    payload[j] = None \/ payload[j].action \notin {"deregister", "update"}

AcknowledgedIsListed ==
    \A k \in CallId :
        /\ Acknowledged(k)
        /\ server = "listening" /\ starts = 1
        /\ \A j \in CallId : LeavesEntries(j)
        => \/ ~body[k]
           \/ \E e \in Named(registry, payload[k].name) :
                 e.addr = payload[k].addr /\ e.coords = payload[k].coords

(***************************************************************************)
(* Returns: no caller of the registry waits for ever, though the registry  *)
(* may stop at any moment, and need not take a connection it has.          *)
(***************************************************************************)
Returns == \A k \in CallId : (client[k] = "connecting") ~> (client[k] = "returned")

(***************************************************************************)
(* HandlersEnd: if the registry goes on running, each handler thread ends, *)
(* also that of a caller that has gone away in the middle of its request.  *)
(***************************************************************************)
HandlersEnd ==
    (\A k \in CallId : WF_vars(HandleClient(k)))
      => \A k \in CallId : (handler[k] = "recv") ~> (handler[k] \in {"closed", "lost"})
=============================================================================
