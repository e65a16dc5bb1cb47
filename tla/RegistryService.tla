-------------------------- MODULE RegistryService ---------------------------
(***************************************************************************)
(* What the registry promises its callers.  A call takes effect at one     *)
(* moment after it was made, or not at all, and never twice; an answer is  *)
(* the answer of that moment; a call that takes effect after its caller    *)
(* has given up is still one call.  A restart forgets the list, and the    *)
(* calls that have reached the registry.                                   *)
(***************************************************************************)
EXTENDS NexusRegistryServer

CONSTANTS
    CallId,      \* the calls, numbered in the order they are made
    Payloads,    \* what is asked: [action, name, addr, coords]
    None         \* no payload, no reply, no result

Nothing(kind) == [kind |-> kind, entries |-> {}]
Failed == Nothing("failed")

(***************************************************************************)
(* What the functions of NetworkManager tell their callers of a reply, or  *)
(* of a failure.  A registration or an update is done if there was a       *)
(* reply: every reply is 200 OK, and what it says is not looked at.        *)
(***************************************************************************)
PerformCurlRequest(m) == IF m.kind = "failed" THEN Failed ELSE Nothing("done")
GetNodePublicKey(m) == IF m.kind = "publicKey" THEN m ELSE Nothing("exception")
FetchNodesFromRegistry(m) == IF m.kind = "list" THEN m ELSE Nothing("no nodes")
DeregisterNodeWithRegistry(m) == Nothing("done")

Outcome(r, m) ==
    CASE r.action = "getPublicKey" -> GetNodePublicKey(m)
      [] r.action = "list" -> FetchNodesFromRegistry(m)
      [] r.action = "deregister" -> DeregisterNodeWithRegistry(m)
      [] OTHER -> PerformCurlRequest(m)

VARIABLES
    payload,     \* what each call asks
    reply,       \* what the registry has replied to it
    result       \* what its caller was told

vars == <<registry, pushes, requests, payload, reply, result>>

Init ==
    /\ RegistryInit
    /\ payload = [k \in CallId |-> None]
    /\ reply = [k \in CallId |-> None]
    /\ result = [k \in CallId |-> None]

Open(k) == payload[k] # None /\ result[k] = None

Call(k, r) ==
    /\ payload[k] = None
    /\ payload' = [payload EXCEPT ![k] = r]
    /\ requests' = requests \cup {k}
    /\ UNCHANGED <<registry, pushes, reply, result>>

TakeEffect(k) ==
    /\ k \in requests
    /\ ProcessRequest(payload[k])
    /\ reply' = [reply EXCEPT ![k] = Reply(payload[k])]
    /\ requests' = requests \ {k}
    /\ UNCHANGED <<payload, result>>

Refuse(k) ==
    /\ k \in requests
    /\ reply' = [reply EXCEPT ![k] = Error]
    /\ requests' = requests \ {k}
    /\ UNCHANGED <<registry, pushes, payload, result>>

Answer(k) ==
    /\ Open(k)
    /\ reply[k] # None
    /\ result' = [result EXCEPT ![k] = Outcome(payload[k], reply[k])]
    /\ UNCHANGED <<registry, pushes, requests, payload, reply>>

(* The caller gives up; the registry may or may not have the call.         *)
GiveUp(k) ==
    /\ Open(k)
    /\ result' = [result EXCEPT ![k] = Outcome(payload[k], Failed)]
    /\ requests' \in {requests, requests \ {k}}
    /\ UNCHANGED <<registry, pushes, payload, reply>>

Restart ==
    /\ registry' = {}
    /\ requests' \in SUBSET requests
    /\ UNCHANGED <<pushes, payload, reply, result>>

Next ==
    \/ \E k \in CallId : \/ \E r \in Payloads : Call(k, r)
                         \/ TakeEffect(k)
                         \/ Refuse(k)
                         \/ Answer(k)
                         \/ GiveUp(k)
    \/ Restart

Spec == Init /\ [][Next]_vars
=============================================================================
