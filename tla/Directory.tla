----------------------------- MODULE Directory ------------------------------
(***************************************************************************)
(* Membership: the registry server and the ./nexus processes that register *)
(* with it, move, list each other and leave.                               *)
(*                                                                         *)
(* A process has up to four threads: main (nexus_main/main.cpp from the    *)
(* construction of the node to return), the position thread of a           *)
(* satellite, the fetch thread and the receiver.  A request to the         *)
(* registry blocks the thread that makes it (performCurlRequest) and no    *)
(* caller looks at its result.                                             *)
(*                                                                         *)
(* A process here is one run of the program.  Starting a node again is     *)
(* another process with the same name.                                     *)
(***************************************************************************)
EXTENDS NexusRegistryServer, Sequences, FiniteSets

CONSTANTS
    Proc,         \* the runs of ./nexus
    Satellites,   \* those started with -node satellite
    NameOf,       \* Proc -> name
    AddrOf,       \* Proc -> ip and port
    Addressed,    \* those that anybody sends datagrams to
    Faults,       \* the kinds of fault that may happen
    MaxFaults,    \* bound: how many happen
    MaxMoves      \* bound: how often a satellite moves

ASSUME DirectoryAssumption ==
    /\ Satellites \subseteq Proc
    /\ Addressed \subseteq Proc
    /\ NameOf \in [Proc -> STRING]
    /\ AddrOf \in [Proc -> STRING]
    /\ Faults \subseteq {"failure", "timeout", "restart", "kill"}
    /\ MaxFaults \in Nat
    /\ MaxMoves \in Nat

VARIABLES
    pc,        \* where each thread of each process is
    coords,    \* the node's coordinates, counted in moves: <<x, y>>
    readX,     \* main's copy of x while it builds the register payload
    cache,     \* NetworkManager::nodes of each process
    listing,   \* the rest of the list reply the fetch thread is adding
    table,     \* the size of the routing table of each process
    faults     \* how many faults have happened

nodeVars == <<coords, readX, cache, listing, table>>
vars == <<registryVars, pc, nodeVars, faults>>

Thread == {"main", "position", "fetch", "receiver"}
Place == {"off", "payload", "payloadY", "register", "bind", "input",
          "deregister", "join", "top", "moveY", "update", "list", "apply",
          "start", "receive", "done", "exited", "dead"}
Coordinates == (0 .. MaxMoves) \X (0 .. MaxMoves)

(* isRunning is cleared by q and at no other place.                        *)
Running(p) ==
    pc[p]["main"] \in {"payload", "payloadY", "register", "bind", "input"}
Alive(p) == pc[p]["main"] \notin {"off", "exited", "dead"}
Ended(p) == pc[p]["main"] \in {"exited", "dead"}
HoldsSocket(p) == pc[p]["main"] \in {"input", "deregister", "join"}

NodeEntry == [name : STRING, addr : STRING, coords : Coordinates]
ListedEntry ==
    [at : Nat, name : STRING, addr : STRING, coords : Coordinates]
Request ==
    [from : Proc, thread : Thread, action : {"register", "deregister", "update", "list"},
     name : STRING, addr : STRING, coords : Coordinates,
     awaited : BOOLEAN, cut : BOOLEAN, tag : Nat]

TypeOK ==
    /\ registry \subseteq ListedEntry
    /\ pushes \in Nat
    /\ requests \subseteq Request
    /\ pc \in [Proc -> [Thread -> Place]]
    /\ coords \in [Proc -> Coordinates]
    /\ readX \in [Proc -> 0 .. MaxMoves]
    /\ cache \in [Proc -> Seq(NodeEntry)]
    /\ listing \in [Proc -> SUBSET ListedEntry]
    /\ table \in [Proc -> Nat]
    /\ faults \in 0 .. MaxFaults

Everywhere(place) == [t \in Thread |-> place]

Init ==
    /\ RegistryInit
    /\ pc = [p \in Proc |-> Everywhere("off")]
    /\ coords = [p \in Proc |-> <<0, 0>>]
    /\ readX = [p \in Proc |-> 0]
    /\ cache = [p \in Proc |-> <<>>]
    /\ listing = [p \in Proc |-> {}]
    /\ table = [p \in Proc |-> 0]
    /\ faults = 0
-----------------------------------------------------------------------------
(* Requests.                                                               *)

At(p, t, place) == pc[p][t] = place
Goto(p, t, place) == pc' = [pc EXCEPT ![p][t] = place]

(***************************************************************************)
(* The thread sends its request and blocks in the place named after it.    *)
(***************************************************************************)
Send(p, t, action, payload) ==
    /\ requests' = requests \cup
         {[from |-> p, thread |-> t, action |-> action,
           name |-> NameOf[p], addr |-> AddrOf[p], coords |-> payload,
           awaited |-> TRUE, cut |-> FALSE, tag |-> 0]}
    /\ Goto(p, t, action)
    /\ UNCHANGED <<registry, pushes>>

(* Where a thread goes on after its request, however that has ended.       *)
After(action) == CASE action = "register"   -> "bind"
                   [] action = "deregister" -> "join"
                   [] action = "update"     -> "top"
                   [] action = "list"       -> "apply"

(***************************************************************************)
(* performCurlRequest returns to the thread that made request r.  Only the *)
(* fetch thread uses the reply, the list found (empty if it failed).       *)
(***************************************************************************)
Return(r, found) ==
    IF r.awaited
    THEN /\ Goto(r.from, r.thread, After(r.action))
         /\ listing' = IF r.action = "list"
                       THEN [listing EXCEPT ![r.from] = found] ELSE listing
    ELSE UNCHANGED <<pc, listing>>

(***************************************************************************)
(* A handler thread processes a request and the reply reaches its caller.  *)
(***************************************************************************)
HandleClient(p, t) ==
    \E r \in requests :
      /\ r.from = p /\ r.thread = t /\ ~r.cut
      /\ ProcessRequest(r)
      /\ requests' = requests \ {r}
      /\ Return(r, registry)
      /\ UNCHANGED <<coords, readX, cache, table, faults>>
-----------------------------------------------------------------------------
(* The main thread.                                                        *)

(***************************************************************************)
(* The user starts the program.  A satellite's position thread starts      *)
(* before the node is registered.                                          *)
(***************************************************************************)
Launch(p) ==
    /\ At(p, "main", "off")
    /\ pc' = [pc EXCEPT ![p] = [@ EXCEPT
                !["main"] = "payload",
                !["position"] = IF p \in Satellites THEN "top" ELSE "done"]]
    /\ UNCHANGED <<registryVars, nodeVars, faults>>

(***************************************************************************)
(* createNodePayload copies the coordinates, first x and then y, while the *)
(* position thread may be between writing the one and the other.           *)
(***************************************************************************)
ReadX(p) ==
    /\ At(p, "main", "payload")
    /\ readX' = [readX EXCEPT ![p] = coords[p][1]]
    /\ Goto(p, "main", "payloadY")
    /\ UNCHANGED <<registryVars, coords, cache, listing, table, faults>>

Register(p) ==
    /\ At(p, "main", "payloadY")
    /\ Send(p, "main", "register", <<readX[p], coords[p][2]>>)
    /\ UNCHANGED <<nodeVars, faults>>

(* bind, and the receiver and fetch threads start.                         *)
Bind(p) ==
    /\ At(p, "main", "bind")
    /\ \A q \in Proc : HoldsSocket(q) => AddrOf[q] # AddrOf[p]
    /\ pc' = [pc EXCEPT ![p] = [@ EXCEPT !["main"] = "input",
                                         !["fetch"] = "top",
                                         !["receiver"] = "start"]]
    /\ UNCHANGED <<registryVars, nodeVars, faults>>

(***************************************************************************)
(* A process that ends takes its threads with it, but not the requests the *)
(* registry already has.                                                   *)
(***************************************************************************)
Die(p) ==
    /\ pc' = [pc EXCEPT ![p] = Everywhere("dead")]
    /\ requests' = {IF r.from = p THEN [r EXCEPT !.awaited = FALSE] ELSE r :
                      r \in requests}
    /\ UNCHANGED <<registry, pushes, nodeVars>>

(***************************************************************************)
(* The address is taken: "return 4", with the node registered already.  In *)
(* a satellite this destroys a joinable thread, which terminates too.      *)
(***************************************************************************)
BindFails(p) ==
    /\ At(p, "main", "bind")
    /\ \E q \in Proc : HoldsSocket(q) /\ AddrOf[q] = AddrOf[p]
    /\ Die(p)
    /\ UNCHANGED faults

(* The user enters q: isRunning = false, then deregister.                  *)
Quit(p) ==
    /\ At(p, "main", "input")
    /\ Send(p, "main", "deregister", coords[p])
    /\ UNCHANGED <<nodeVars, faults>>

(* The joins; each waits for a thread to have left its loop.               *)
JoinThreads(p) ==
    /\ At(p, "main", "join")
    /\ \A t \in Thread \ {"main"} : At(p, t, "done")
    /\ Goto(p, "main", "exited")
    /\ UNCHANGED <<registryVars, nodeVars, faults>>
-----------------------------------------------------------------------------
(* The position thread of a satellite.                                     *)

NextMove(k) == IF k < MaxMoves THEN k + 1 ELSE k

MoveX(p) ==
    /\ At(p, "position", "top")
    /\ Running(p)
    /\ coords' = [coords EXCEPT ![p] = <<NextMove(@[1]), @[2]>>]
    /\ Goto(p, "position", "moveY")
    /\ UNCHANGED <<registryVars, readX, cache, listing, table, faults>>

(* The second coordinate, and updateNodeInRegistry.                        *)
MoveY(p) ==
    /\ At(p, "position", "moveY")
    /\ coords' = [coords EXCEPT ![p] = <<@[1], NextMove(@[2])>>]
    /\ Send(p, "position", "update", coords'[p])
    /\ UNCHANGED <<readX, cache, listing, table, faults>>

StopMoving(p) ==
    /\ At(p, "position", "top")
    /\ ~Running(p)
    /\ Goto(p, "position", "done")
    /\ UNCHANGED <<registryVars, nodeVars, faults>>
-----------------------------------------------------------------------------
(* The fetch thread.                                                       *)

FetchNodes(p) ==
    /\ At(p, "fetch", "top")
    /\ Running(p)
    /\ Send(p, "fetch", "list", <<0, 0>>)
    /\ UNCHANGED <<nodeVars, faults>>

Knows(p, name) == \E i \in DOMAIN cache[p] : cache[p][i].name = name

\* mutant: a node that has moved is another node
SameEntryExists(p, e) ==
    \E i \in DOMAIN cache[p] :
        /\ cache[p][i].name = e.name
        /\ cache[p][i].addr = e.addr
        /\ cache[p][i].coords = e.coords

NodeExists(p, e) ==
    \E i \in DOMAIN cache[p] :
        cache[p][i].name = e.name /\ cache[p][i].addr = e.addr

IsFirstNamed(p, i, name) ==
    /\ cache[p][i].name = name
    /\ \A k \in 1 .. (i - 1) : cache[p][k].name # name

NodeOf(e) == [name |-> e.name, addr |-> e.addr, coords |-> e.coords]

\* mutants: a node that is known keeps the coordinates it came with; a process
\* leaves itself out of its list; a node is stored without its address
PushUnknown(p, e) ==
    IF NodeExists(p, e) THEN cache[p] ELSE Append(cache[p], NodeOf(e))
PushOthers(p, e) ==
    IF e.name = NameOf[p] THEN cache[p] ELSE PushUnknown(p, e)
PushWithoutAddress(p, e) ==
    Append(cache[p], [name |-> e.name, coords |-> e.coords])

(* addNode (module Routing has its two threads in detail).                 *)
WithNode(p, e) ==
    IF NodeExists(p, e)
    THEN [i \in DOMAIN cache[p] |->
            IF IsFirstNamed(p, i, e.name)
            THEN [cache[p][i] EXCEPT !.coords = e.coords] ELSE cache[p][i]]
    ELSE Append(cache[p], NodeOf(e))

AddNode(p) ==
    /\ At(p, "fetch", "apply")
    /\ \E e \in listing[p] :
         /\ IsFirstOf(e, listing[p])
         /\ cache' = [cache EXCEPT ![p] = WithNode(p, e)]
         /\ listing' = [listing EXCEPT ![p] = @ \ {e}]
    /\ UNCHANGED <<registryVars, pc, coords, readX, table, faults>>

UpdateRoutingTable(p) ==
    /\ At(p, "fetch", "apply")
    /\ listing[p] = {}
    /\ cache[p] # <<>>
    /\ table' = [table EXCEPT ![p] = Len(cache[p])]
    /\ Goto(p, "fetch", "top")
    /\ UNCHANGED <<registryVars, coords, readX, cache, listing, faults>>

(* route() with no node: the process is killed by the write to minDist[0]. *)
RouteWithoutNodes(p) ==
    /\ At(p, "fetch", "apply")
    /\ listing[p] = {}
    /\ cache[p] = <<>>
    /\ Die(p)
    /\ UNCHANGED faults

StopFetching(p) ==
    /\ At(p, "fetch", "top")
    /\ ~Running(p)
    /\ Goto(p, "fetch", "done")
    /\ UNCHANGED <<registryVars, nodeVars, faults>>
-----------------------------------------------------------------------------
(***************************************************************************)
(* The receiver thread, which sees isRunning only between two datagrams    *)
(* and once at its start.  When that is nobody can tell: it has passed, or *)
(* a user has been quicker with q and the thread ends without a datagram.  *)
(***************************************************************************)

DatagramArrives(p) ==
    /\ p \in Addressed
    /\ At(p, "receiver", "start") \/ At(p, "receiver", "receive")
    /\ Goto(p, "receiver", "top")
    /\ UNCHANGED <<registryVars, nodeVars, faults>>

\* mutant: while (true)
ReceiveForever(p) ==
    /\ At(p, "receiver", "top")
    /\ Goto(p, "receiver", "receive")
    /\ UNCHANGED <<registryVars, nodeVars, faults>>

ReceiveLoop(p) ==
    /\ At(p, "receiver", "top") \/ (At(p, "receiver", "start") /\ ~Running(p))
    /\ Goto(p, "receiver", IF Running(p) THEN "receive" ELSE "done")
    /\ UNCHANGED <<registryVars, nodeVars, faults>>
-----------------------------------------------------------------------------
(* Faults.                                                                 *)

FaultHappens(kind) ==
    /\ kind \in Faults
    /\ faults < MaxFaults
    /\ faults' = faults + 1

(***************************************************************************)
(* A request ends without any effect: the connection is refused, or the    *)
(* registry reads the HTTP headers without the body and replies with an    *)
(* error that no caller notices ...                                        *)
(***************************************************************************)
EndWithoutEffect(r) ==
    /\ requests' = requests \ {r}
    /\ Return(r, {})
    /\ UNCHANGED <<registry, pushes, coords, readX, cache, table>>

RequestFails ==
    /\ FaultHappens("failure")
    /\ \E r \in requests : EndWithoutEffect(r)

(* ... or the registry it was sent to is gone.                             *)
CutRequestFails ==
    /\ \E r \in requests : r.cut /\ EndWithoutEffect(r)
    /\ UNCHANGED faults

(* CURLOPT_TIMEOUT: the caller goes on, the registry still has the request. *)
RequestTimesOut ==
    /\ FaultHappens("timeout")
    /\ \E r \in requests :
         /\ r.awaited
         /\ requests' = (requests \ {r})
                          \cup {[r EXCEPT !.awaited = FALSE, !.tag = faults']}
         /\ Return(r, {})
    /\ UNCHANGED <<registry, pushes, coords, readX, cache, table>>

(* The registry keeps nothing on disk.                                     *)
RestartRegistry ==
    /\ FaultHappens("restart")
    /\ registry' = {}
    /\ requests' = {[r EXCEPT !.cut = TRUE] : r \in requests}
    /\ UNCHANGED <<pushes, pc, nodeVars>>

(* The process is interrupted (Ctrl-C, or its terminal is closed).         *)
Kill(p) ==
    /\ FaultHappens("kill")
    /\ Alive(p)
    /\ Die(p)
-----------------------------------------------------------------------------
User(p) == Launch(p) \/ Quit(p)

MainThread(p) ==
    ReadX(p) \/ Register(p) \/ Bind(p) \/ BindFails(p) \/ JoinThreads(p)

PositionThread(p) == MoveX(p) \/ MoveY(p) \/ StopMoving(p)

FetchThread(p) ==
    \/ FetchNodes(p)
    \/ AddNode(p)
    \/ UpdateRoutingTable(p)
    \/ RouteWithoutNodes(p)
    \/ StopFetching(p)

Registry(p) == \E t \in Thread : HandleClient(p, t)

Next ==
    \/ \E p \in Proc : \/ User(p)
                       \/ MainThread(p)
                       \/ PositionThread(p)
                       \/ FetchThread(p)
                       \/ DatagramArrives(p)
                       \/ ReceiveLoop(p)
                       \/ Registry(p)
                       \/ Kill(p)
    \/ RequestFails
    \/ CutRequestFails
    \/ RequestTimesOut
    \/ RestartRegistry

(***************************************************************************)
(* Every thread is scheduled again and again; a request that was sent is   *)
(* processed, or fails if the registry it was sent to is gone.  Users,     *)
(* datagrams and faults owe nothing, nor does a receiver that may be       *)
(* waiting for its first datagram; it makes no requests.                   *)
(***************************************************************************)
Fairness ==
    /\ \A p \in Proc : /\ WF_vars(MainThread(p))
                       /\ WF_vars(PositionThread(p))
                       /\ WF_vars(FetchThread(p))
                       /\ WF_vars(At(p, "receiver", "top") /\ ReceiveLoop(p))
                       /\ \A t \in Thread \ {"receiver"} : WF_vars(HandleClient(p, t))
    /\ WF_vars(CutRequestFails)

Spec == Init /\ [][Next]_vars /\ Fairness
-----------------------------------------------------------------------------
(* Properties.                                                             *)

UniqueNames == \A p, q \in Proc : NameOf[p] = NameOf[q] => p = q
InSession(p) == pc[p]["main"] = "input"
ListedAs(p) == Named(registry, NameOf[p])

(***************************************************************************)
(* SessionIsListed: while its user has a prompt, a process is listed by    *)
(* the registry, once and at its address, whatever the other processes and *)
(* its own position thread have sent (unique names, no faults).            *)
(***************************************************************************)
SessionIsListed ==
    \A p \in Proc : InSession(p) =>
        \E e \in registry : ListedAs(p) = {e} /\ e.addr = AddrOf[p]

(***************************************************************************)
(* GoneStaysGone: a process that has deregistered is not listed again,     *)
(* although its position thread may still send an update of its position   *)
(* before main has joined it (unique names, no faults).                    *)
(***************************************************************************)
GoneStaysGone ==
    \A p \in Proc : pc[p]["main"] \in {"join", "exited"} => ListedAs(p) = {}

(***************************************************************************)
(* SourceIsKnown: a process routes from its own node.  updateRoutingTable  *)
(* takes the first node of the list for the source when it does not find   *)
(* the name of its own (unique names, no faults).                          *)
(***************************************************************************)
SourceIsKnown ==
    \A p \in Proc : InSession(p) /\ table[p] > 0 => Knows(p, NameOf[p])

(***************************************************************************)
(* CacheDistinct: however often and in whatever order lists arrive, a node *)
(* is in a process's list at most once under one address.                  *)
(***************************************************************************)
CacheDistinct ==
    \A p \in Proc : \A i, j \in DOMAIN cache[p] :
        /\ cache[p][i].name = cache[p][j].name
        /\ cache[p][i].addr = cache[p][j].addr
        => i = j

(***************************************************************************)
(* PositionsNeverGoBack: the positions a process knows of another node are *)
(* positions it has passed in that order: no list that is applied late, no *)
(* registration payload torn by the position thread and no update moves a  *)
(* satellite back (unique names, no time-outs).                            *)
(***************************************************************************)
PositionsNeverGoBack ==
    [][\A p \in Proc : \A i \in DOMAIN cache[p] :
         /\ cache[p][i].coords[1] <= cache'[p][i].coords[1]
         /\ cache[p][i].coords[2] <= cache'[p][i].coords[2]]_vars

(***************************************************************************)
(* RunsUntilQuit: a process whose isRunning is set goes on until the user  *)
(* enters q.                                                               *)
(***************************************************************************)
RunsUntilQuit ==
    [][\A p \in Proc : Running(p) =>
         Running(p)' \/ pc'[p]["main"] = "deregister"]_vars

(* The position under which a process knows a node, as findNode finds it.  *)
KnownAt(p, name, position) ==
    \E i \in DOMAIN cache[p] :
        IsFirstNamed(p, i, name) /\ cache[p][i].coords = position

(***************************************************************************)
(* PositionsConverge: two processes whose users keep their prompts come to *)
(* know each other, at the last position of a satellite that has stopped   *)
(* at MaxMoves, and keep it.                                               *)
(***************************************************************************)
LastPosition(q) == IF q \in Satellites THEN <<MaxMoves, MaxMoves>> ELSE <<0, 0>>

PositionsConverge ==
    \A p, q \in Proc :
        <>[](InSession(p) /\ InSession(q))
          => <>[]KnownAt(p, NameOf[q], LastPosition(q))

(***************************************************************************)
(* QuitEnds: after q the process ends.                                     *)
(***************************************************************************)
QuitEnds == \A p \in Proc : (pc[p]["main"] = "deregister") ~> Ended(p)

(***************************************************************************)
(* QuitEndsWithTraffic: q ends a process to which datagrams keep arriving, *)
(* whatever becomes of its requests to the registry.                       *)
(***************************************************************************)
QuitEndsWithTraffic ==
    \A p \in Addressed :
        WF_vars(DatagramArrives(p))
          => ((pc[p]["main"] = "deregister") ~> Ended(p))
=============================================================================
