------------------------ MODULE NexusRegistryServer -------------------------
(***************************************************************************)
(* The registry server: a list of nodes behind one mutex, and the requests *)
(* its detached handler threads have accepted and not yet processed.  Each *)
(* connection has a thread of its own, so they are processed in any order. *)
(*                                                                         *)
(* The vector of the code is a set of entries here; the field "at" is the  *)
(* order in which they were pushed, which erase and update preserve.       *)
(***************************************************************************)
EXTENDS Integers

VARIABLES
    registry,   \* std::vector<NodeInfo> nodes
    pushes,     \* how many entries were ever pushed
    requests    \* accepted connections whose request is not processed yet

registryVars == <<registry, pushes, requests>>

RegistryInit ==
    /\ registry = {}
    /\ pushes = 0
    /\ requests = {}

Named(entries, name) == {e \in entries : e.name = name}

(* The entry of a list that was pushed first.                              *)
IsFirstOf(e, entries) == e \in entries /\ \A f \in entries : e.at <= f.at

EntryOf(r, at) ==
    [at |-> at, name |-> r.name, addr |-> r.addr, coords |-> r.coords]

\* mutant: a name that is listed already is not registered again
RegisterOnce(r) ==
    IF Named(registry, r.name) = {}
    THEN /\ registry' = registry \cup {EntryOf(r, pushes + 1)}
         /\ pushes' = pushes + 1
    ELSE UNCHANGED <<registry, pushes>>

(* push_back, whether or not the name is listed already.                   *)
RegisterNode(r) ==
    /\ registry' = registry \cup {EntryOf(r, pushes + 1)}
    /\ pushes' = pushes + 1

\* mutant: remove_if with the test the wrong way round
DeregisterOthers(r) ==
    /\ registry' = Named(registry, r.name)
    /\ UNCHANGED pushes

(* Every entry of that name goes, of whatever process.                     *)
DeregisterNode(r) ==
    /\ registry' = registry \ Named(registry, r.name)
    /\ UNCHANGED pushes

\* mutant: a node that is not listed is added
Upsert(r) ==
    IF Named(registry, r.name) = {}
    THEN RegisterNode(r)
    ELSE /\ registry' = {IF IsFirstOf(e, Named(registry, r.name))
                         THEN EntryOf(r, e.at) ELSE e : e \in registry}
         /\ UNCHANGED pushes

(***************************************************************************)
(* The first entry of that name takes the address and the coordinates of   *)
(* the request; if there is none nothing happens, though the reply is the  *)
(* same.                                                                   *)
(***************************************************************************)
UpdateNode(r) ==
    /\ registry' = {IF IsFirstOf(e, Named(registry, r.name))
                    THEN EntryOf(r, e.at) ELSE e : e \in registry}
    /\ UNCHANGED pushes

(***************************************************************************)
(* processRequest: the whole of it is under the mutex but for the parsing. *)
(* A list and a query change nothing; Directory takes registry itself as   *)
(* the reply to a list.                                                    *)
(***************************************************************************)
ProcessRequest(r) ==
    \/ r.action = "register" /\ RegisterNode(r)
    \/ r.action = "deregister" /\ DeregisterNode(r)
    \/ r.action = "update" /\ UpdateNode(r)
    \/ r.action \in {"list", "getPublicKey"} /\ UNCHANGED <<registry, pushes>>

(* findNodeByName: the entry whose public key is wanted, if there is one.  *)
FindNodeByName(name) ==
    {e \in Named(registry, name) : IsFirstOf(e, Named(registry, name))}

Error == [kind |-> "error", entries |-> {}]

(***************************************************************************)
(* What processRequest replies.  Every reply goes out as 200 OK, errors    *)
(* too; an entry stands for the JSON object or the key it is sent as.      *)
(***************************************************************************)
Reply(r) ==
    CASE r.action = "list" ->
            [kind |-> "list", entries |-> registry]
      [] r.action = "getPublicKey" ->
            IF FindNodeByName(r.name) = {} THEN Error
            ELSE [kind |-> "publicKey", entries |-> FindNodeByName(r.name)]
      [] OTHER ->
            [kind |-> "message", entries |-> {}]
=============================================================================
