------------------------------ MODULE Routing -------------------------------
(***************************************************************************)
(* The node list and the routing table of one ./nexus process: the part of *)
(* NetworkManager that two threads share without a lock.                   *)
(*                                                                         *)
(*  - The fetch thread (nexus_main/main.cpp) repeats for ever: add or      *)
(*    refresh the nodes the registry listed (addNode), then rebuild the    *)
(*    topology and the next hops (updateRoutingTable, route).              *)
(*  - The input thread looks a target up by name (findNode) and then asks  *)
(*    for its next hop (getNextHop), at any moment in between.             *)
(*                                                                         *)
(* The resize of nextHop, each entry that route() then resets, and each    *)
(* outer iteration of Dijkstra's loop are steps of their own: none writes  *)
(* an entry twice, and a reader reads one entry.  What a round keeps to    *)
(* itself (weights, src_idx, visited, minDist) belongs to its first step.  *)
(* C++ indices start at 0, those of this module at 1.                      *)
(***************************************************************************)
EXTENDS LinkWeight, Sequences, FiniteSetsExt

CONSTANTS
    Self,       \* the name this process was started with
    Listing,    \* the entries the registry may report
    IntMax,     \* INT_MAX, "not reached" in minDist
    Garbage     \* what memory may hold where no entry of nextHop is

Entries == [name : STRING, addr : STRING, type : NodeTypes, coords : Int \X Int]

ASSUME RoutingAssumption ==
    /\ IntMax \in Nat \ {0}
    /\ Listing \subseteq Entries
    /\ Garbage \subseteq Int

(* The sum of the squares is an int, and the bound on distances is one.    *)
ASSUME DistancesFit ==
    \A a, b \in Listing :
        LET squares == SquaredUnits(a.coords[1], b.coords[1])
                         + SquaredUnits(a.coords[2], b.coords[2])
        IN  squares <= IntMax /\ squares < Square(MaxDistance + 1)

VARIABLES
    nodes,      \* std::vector<std::shared_ptr<Node>> nodes
    topology,   \* the matrix of link weights the last route() used
    nextHop,    \* std::vector<int> nextHop: destination index -> hop index
    reset,      \* route(): how many entries this round has reset
    zeroed,     \* those that resize has added and the loop has yet to reset
    source,     \* src_idx
    minDist,    \* route(): tentative distances
    visited,    \* route(): indices already settled
    fetcher,    \* where the fetch thread is
    pushing,    \* the entry push_back is storing
    sender      \* the input thread: idle, or between findNode and getNextHop

vars == <<fetcher, pushing, sender, nodes, topology, nextHop, reset, zeroed,
          source, minDist, visited>>
tableVars == <<topology, nextHop, reset, zeroed, source, minDist, visited>>

Nobody == [name |-> "", addr |-> ""]
Idle == [stage |-> "idle"]
Found(n) == [stage |-> "found", name |-> n]
Sent(n, i) == [stage |-> "sent", name |-> n, hop |-> i]
Strayed(n, i) == [stage |-> "strayed", name |-> n, hop |-> i]
ListedNames == {e.name : e \in Listing}

TypeOK ==
    /\ nodes \in Seq(Entries)
    /\ fetcher \in {"fetching", "pushing", "resetting", "routing", "crashed"}
    /\ pushing \in Listing \cup {Nobody}
    /\ sender \in {Idle} \cup [stage : {"found"}, name : ListedNames]
                 \cup [stage : {"sent"}, name : ListedNames, hop : Nat]
                 \cup [stage : {"strayed"}, name : ListedNames, hop : Garbage]
    /\ nextHop \in Seq(Nat)
    /\ reset \in 0 .. Len(nextHop)
    /\ zeroed \in SUBSET DOMAIN nextHop
    /\ minDist \in [DOMAIN nextHop -> 0 .. IntMax]
    /\ topology \in [DOMAIN nextHop -> [DOMAIN nextHop -> Nat \cup {NoLink}]]
    /\ visited \in SUBSET DOMAIN nextHop
    /\ source \in Nat

Init ==
    /\ nodes = <<>>
    /\ topology = <<>>
    /\ nextHop = <<>>
    /\ reset = 0
    /\ zeroed = {}
    /\ source = 1
    /\ minDist = <<>>
    /\ visited = {}
    /\ fetcher = "fetching"
    /\ pushing = Nobody
    /\ sender = Idle
-----------------------------------------------------------------------------
(* Lookups in the node list.  Every search by name stops at the first hit. *)

NodeExists(e) ==
    \E i \in DOMAIN nodes : nodes[i].name = e.name /\ nodes[i].addr = e.addr

IsFirst(i, name) ==
    /\ i \in DOMAIN nodes
    /\ nodes[i].name = name
    /\ \A k \in 1 .. (i - 1) : nodes[k].name # name

Knows(name) == \E i \in DOMAIN nodes : nodes[i].name = name
-----------------------------------------------------------------------------
(* The fetch thread: addNode.                                              *)

(***************************************************************************)
(* A node with this name, address and port is known: the new coordinates   *)
(* go to the first node of that NAME, and nothing else is refreshed.       *)
(***************************************************************************)
RefreshNode(e) ==
    /\ fetcher = "fetching"
    /\ NodeExists(e)
    /\ \E i \in DOMAIN nodes :
         /\ IsFirst(i, e.name)
         /\ nodes' = [nodes EXCEPT ![i] = [@ EXCEPT !.coords = e.coords]]
    /\ UNCHANGED <<tableVars, fetcher, pushing, sender>>

(***************************************************************************)
(* nodes.push_back(node), which other threads can overlap: it starts ...   *)
(***************************************************************************)
BeginPush(e) ==
    /\ fetcher = "fetching"
    /\ ~NodeExists(e)
    /\ fetcher' = "pushing"
    /\ pushing' = e
    /\ UNCHANGED <<nodes, tableVars, sender>>

(* ... and its effect becomes visible: the node is the last of the list.   *)
StoredInFront == <<pushing>> \o nodes   \* mutant: the newest node comes first
Stored == Append(nodes, pushing)

EndPush ==
    /\ fetcher = "pushing"
    /\ nodes' = Stored
    /\ fetcher' = "fetching"
    /\ pushing' = Nobody
    /\ UNCHANGED <<tableVars, sender>>
-----------------------------------------------------------------------------
(* The fetch thread: updateRoutingTable and route.                         *)

\* mutant: the weights are computed only when the number of nodes changes
TopologyOfNewSize ==
    IF DOMAIN topology = DOMAIN nodes
    THEN topology
    ELSE [i \in DOMAIN nodes |->
            [j \in DOMAIN nodes |-> Weight(nodes[i], nodes[j])]]

Topology ==
    [i \in DOMAIN nodes |-> [j \in DOMAIN nodes |-> Weight(nodes[i], nodes[j])]]

\* mutant: nextHop gets its size in the first round and keeps it
ResizedOnce == IF nextHop = <<>> THEN [i \in DOMAIN nodes |-> 1] ELSE nextHop

(* resize keeps the entries there are and adds zeros: the first node.      *)
Resized == [i \in DOMAIN nodes |-> IF i \in DOMAIN nextHop THEN nextHop[i] ELSE 1]

HopOffByOne(i) == i + 1     \* mutant: counts from 1
DirectHop(i) == i

(* src_idx: the first node of this process's name, or else the first node. *)
IsSourceIndex(i) == \/ IsFirst(i, Self)
                    \/ i = 1 /\ ~Knows(Self)

(***************************************************************************)
(* updateRoutingTable and the resize in route(): the matrix is filled in,  *)
(* only the source has a distance, and nextHop gets as many entries as     *)
(* there are nodes, those of the last round and zeros.                     *)
(***************************************************************************)
BeginRoute ==
    /\ fetcher = "fetching"
    /\ nodes # <<>>
    /\ fetcher' = "resetting"
    /\ topology' = Topology
    /\ \E s \in DOMAIN nodes :
         /\ IsSourceIndex(s)
         /\ source' = s
         /\ minDist' = [i \in DOMAIN nodes |-> IF i = s THEN 0 ELSE IntMax]
    /\ nextHop' = Resized
    /\ reset' = 0
    /\ zeroed' = DOMAIN nodes \ DOMAIN nextHop
    /\ visited' = {}
    /\ UNCHANGED <<nodes, pushing, sender>>

(* nextHop[i] = i: one destination more becomes its own next hop.          *)
ResetHop ==
    /\ fetcher = "resetting"
    /\ reset' = reset + 1
    /\ nextHop' = [nextHop EXCEPT ![reset'] = DirectHop(reset')]
    /\ zeroed' = zeroed \ {reset'}
    /\ fetcher' = IF reset' = Len(nodes) THEN "routing" ELSE "resetting"
    /\ UNCHANGED <<nodes, topology, source, minDist, visited, pushing, sender>>

(* minDist[src_idx] = 0 on an empty vector: a write through a null pointer. *)
RouteWithoutNodes ==
    /\ fetcher = "fetching"
    /\ nodes = <<>>
    /\ fetcher' = "crashed"
    /\ UNCHANGED <<nodes, tableVars, pushing, sender>>

Unvisited == DOMAIN nextHop \ visited

\* mutants: settles the nodes in the order of the list; scans with < and so
\* never settles a node that was not reached
IsNext(u) == u \in Unvisited /\ \A j \in Unvisited : u <= j
IsNearestReached(u) ==
    /\ u \in Unvisited
    /\ minDist[u] < IntMax
    /\ \A j \in Unvisited : \/ minDist[u] < minDist[j]
                            \/ minDist[u] = minDist[j] /\ u <= j

(* The scan with <= keeps the last of the nearest unvisited nodes.         *)
IsNearest(u) ==
    /\ u \in Unvisited
    /\ \A j \in Unvisited : \/ minDist[u] < minDist[j]
                            \/ minDist[u] = minDist[j] /\ j <= u

\* mutant: leaves the distance of u out of the comparison
IsNearerThanBefore(u, j) ==
    /\ j \notin visited \cup {u}
    /\ topology[u][j] # NoLink
    /\ topology[u][j] < minDist[j]

(***************************************************************************)
(* Going through u is shorter for j.  The code adds in 64 bits and stores  *)
(* a sum only if it is below an int; comparing the difference says the     *)
(* same without leaving the range of an int.                               *)
(***************************************************************************)
Improves(u, j) ==
    /\ j \notin visited \cup {u}
    /\ topology[u][j] # NoLink
    /\ topology[u][j] < minDist[j] - minDist[u]

\* mutant: without the "continue" for the source
HopThroughAny(u, j) == IF Improves(u, j) THEN u ELSE nextHop[j]

(* A node reached through u has u as its hop, unless u is the source.      *)
HopThrough(u, j) == IF u # source /\ Improves(u, j) THEN u ELSE nextHop[j]

(* One iteration of the loop of route().                                   *)
Visit(u) ==
    /\ fetcher = "routing"
    /\ IsNearest(u)
    /\ minDist' = [j \in DOMAIN nextHop |->
                     IF Improves(u, j) THEN minDist[u] + topology[u][j]
                                       ELSE minDist[j]]
    /\ nextHop' = [j \in DOMAIN nextHop |-> HopThrough(u, j)]
    /\ visited' = visited \cup {u}
    /\ fetcher' = IF visited' = DOMAIN nextHop THEN "fetching" ELSE "routing"
    /\ UNCHANGED <<nodes, topology, reset, zeroed, source, pushing, sender>>
-----------------------------------------------------------------------------
(* The input thread: sendMessage.                                          *)

(* findNode(targetName); an unknown name is an error and nothing is sent.  *)
FindNode(name) ==
    /\ fetcher # "crashed"
    /\ sender.stage # "found"
    /\ Knows(name)
    /\ sender' = Found(name)
    /\ UNCHANGED <<nodes, tableVars, fetcher, pushing>>

(***************************************************************************)
(* getNextHop searches again and reads nextHop at the index it finds.      *)
(***************************************************************************)
GetNextHop ==
    /\ fetcher # "crashed"
    /\ sender.stage = "found"
    /\ \E i \in DOMAIN nextHop :
         /\ IsFirst(i, sender.name)
         /\ sender' = Sent(sender.name, nextHop[i])
    /\ UNCHANGED <<nodes, tableVars, fetcher, pushing>>

(***************************************************************************)
(* Memory that holds no entry, or no longer, is used as an index of nodes: *)
(* whatever it may hold, or a crash.                                       *)
(***************************************************************************)
ReadGarbage ==
    \/ /\ \E g \in Garbage : sender' = Strayed(sender.name, g)
       /\ UNCHANGED fetcher
    \/ /\ fetcher' = "crashed"
       /\ UNCHANGED sender

(* The index is beyond nextHop, which route() has not resized yet.         *)
ReadBeyondNextHop ==
    /\ fetcher # "crashed"
    /\ sender.stage = "found"
    /\ \E i \in DOMAIN nodes \ DOMAIN nextHop : IsFirst(i, sender.name)
    /\ ReadGarbage
    /\ UNCHANGED <<nodes, tableVars, pushing>>

(***************************************************************************)
(* A vector moves while the input thread reads the buffer it frees: nodes  *)
(* when push_back finds it full (libstdc++ doubles the capacity), nextHop  *)
(* when route() resizes it.  The reader may still see the old contents, as *)
(* the actions above have it, or getNextHop what has come in their place,  *)
(* or findNode crashes.                                                    *)
(***************************************************************************)
ReadDuringMove ==
    /\ \/ fetcher = "pushing" /\ Len(nodes) \in {0, 1, 2, 4, 8, 16}
       \/ fetcher = "fetching" /\ nextHop # <<>> /\ Len(nodes) > Len(nextHop)
    /\ \/ sender.stage = "found" /\ ReadGarbage
       \/ fetcher' = "crashed" /\ UNCHANGED sender
    /\ UNCHANGED <<nodes, tableVars, pushing>>
-----------------------------------------------------------------------------
AddNode == \/ \E e \in Listing : RefreshNode(e) \/ BeginPush(e)
           \/ EndPush

SendMessage == \/ \E name \in ListedNames : FindNode(name)
               \/ GetNextHop
               \/ ReadBeyondNextHop
               \/ ReadDuringMove

VisitNearest == \E u \in DOMAIN nextHop : Visit(u)

UpdateRoutingTable == BeginRoute \/ RouteWithoutNodes \/ ResetHop \/ VisitNearest

Next == AddNode \/ UpdateRoutingTable \/ SendMessage

(* Of the steps of Next only BeginRoute does this, and whenever it is enabled. *)
RoundBegins ==
    /\ fetcher = "fetching" /\ nodes # <<>>
    /\ fetcher' = "resetting"

(***************************************************************************)
(* The fetch thread is scheduled again and again: a list has an end, after *)
(* which the routes are computed, and nothing inside the loops blocks.     *)
(* The user owes nothing, and nothing is said of what the lists contain.   *)
(***************************************************************************)
Fairness ==
    /\ WF_vars(EndPush)
    /\ WF_fetcher(RoundBegins)
    /\ WF_vars(ResetHop)
    /\ WF_vars(VisitNearest)

Spec == Init /\ [][Next]_vars /\ Fairness
-----------------------------------------------------------------------------
(* Properties.                                                             *)

Routed == fetcher \notin {"resetting", "routing"} /\ nextHop # <<>>
Reached(j) == minDist[j] < IntMax
Linked(i, j) == topology[i][j] # NoLink

(***************************************************************************)
(* The node before j on the path the table stands for: route() leaves      *)
(* nextHop[j] = j for the neighbours of the source.                        *)
(***************************************************************************)
Before(j) == IF nextHop[j] = j THEN source ELSE nextHop[j]

(***************************************************************************)
(* ShortestTree: whenever route() has returned, its table is a tree of     *)
(* shortest paths.  Each node reached is one link beyond the node before   *)
(* it, no link offers a shorter way, and a node that was not reached has   *)
(* no link from one that was (unless the sum does not fit an int).         *)
(***************************************************************************)
ShortestTree ==
    Routed =>
      /\ minDist[source] = 0
      /\ \A j \in DOMAIN nextHop \ {source} : Reached(j) =>
           /\ Before(j) # j
           /\ Linked(Before(j), j)
           /\ minDist[j] = minDist[Before(j)] + topology[Before(j)][j]
      /\ \A i, j \in DOMAIN nextHop : Reached(i) /\ Linked(i, j) =>
           minDist[j] - minDist[i] <= topology[i][j]

(***************************************************************************)
(* Shortest walks by their definition (Bellman and Ford), not the way      *)
(* route() computes them.  One more link, in a matrix of weights: the      *)
(* shortest way to i through any neighbour h, given the distances d.  Sums *)
(* that do not fit an int are left out.                                    *)
(***************************************************************************)
Extended(matrix, d) ==
    LET N == DOMAIN matrix
        Steps(i) == {h \in N : matrix[h][i] # NoLink /\ matrix[h][i] < IntMax - d[h]}
    IN  [i \in N |-> Min({d[h] + matrix[h][i] : h \in Steps(i)} \cup {d[i]})]

(* The lengths of the shortest walks from s of at most k links.            *)
Within(matrix, s) ==
    LET within[k \in 0 .. Len(matrix)] ==
            IF k = 0
            THEN [i \in DOMAIN matrix |-> IF i = s THEN 0 ELSE IntMax]
            ELSE LET shorter == within[k - 1] IN Extended(matrix, shorter)
    IN  within

(***************************************************************************)
(* ShortestPaths: route() computes for every node the length of the        *)
(* shortest path from the source, and INT_MAX where there is none or it    *)
(* does not fit an int.  No shortest path has more links than there are    *)
(* nodes.                                                                  *)
(***************************************************************************)
ShortestPaths == Routed => minDist = Within(topology, source)[Len(topology)]

(***************************************************************************)
(* NoSelfRelay: a node is told to relay through itself (sendMessage would  *)
(* send the packet to its own socket) by no entry that a round has ever    *)
(* written, be it of this round or of the last one, when the source may    *)
(* have been another node; only by a zero that resize has just added, and  *)
(* only if the source is the first of its list.                            *)
(***************************************************************************)
NoSelfRelay ==
    \A j \in DOMAIN nextHop :
        nextHop[j] = source /\ j # source => j \in zeroed /\ source = 1

(***************************************************************************)
(* HopsInRange: no entry of the table ever points beyond the node list,    *)
(* while the list grows, while the table is resized and while it is reset; *)
(* so a lookup that has found an entry has got a node, then and later.     *)
(***************************************************************************)
HopsInRange ==
    /\ Len(nextHop) <= Len(nodes)
    /\ \A j \in DOMAIN nextHop : nextHop[j] \in DOMAIN nextHop
    /\ sender.stage = "sent" => sender.hop \in DOMAIN nodes

(***************************************************************************)
(* EveryNodeGetsAnEntry: while the list is longer than the table, lookups  *)
(* of its new names stray into the memory behind the table; that time      *)
(* ends, unless such a lookup ends the process: however lists and rounds   *)
(* come, the table catches up with the list.                               *)
(***************************************************************************)
EveryNodeGetsAnEntry ==
    (Len(nextHop) < Len(nodes)) ~> (Len(nextHop) = Len(nodes) \/ fetcher = "crashed")

(***************************************************************************)
(* GroundNeedsRelay: two ground stations have no link, so once the table   *)
(* is complete and lists a satellite, what a ground station sends to       *)
(* another one goes to a satellite first.                                  *)
(***************************************************************************)
GroundNeedsRelay ==
    (/\ Routed
     /\ IsGround(nodes[source])
     /\ \E s \in DOMAIN nextHop : ~IsGround(nodes[s]))
      => \A j \in DOMAIN nextHop \ {source} :
           IsGround(nodes[j]) => ~IsGround(nodes[nextHop[j]])

(***************************************************************************)
(* IndexStable: an index means the same node for ever.  topology, nextHop  *)
(* and src_idx, computed from one length of the list, are read against a   *)
(* longer one; that is right only because addNode never moves a node.      *)
(***************************************************************************)
IndexStable ==
    [][\A i \in DOMAIN nodes :
         /\ i \in DOMAIN nodes'
         /\ nodes'[i].name = nodes[i].name
         /\ nodes'[i].addr = nodes[i].addr
         /\ nodes'[i].type = nodes[i].type]_vars

(***************************************************************************)
(* FreshTable: when route() returns, its table is about the list as it is  *)
(* at that moment: all its nodes, the weights of their present positions,  *)
(* and this process's own node as the source if the list has it.           *)
(***************************************************************************)
FreshTable ==
    [][fetcher = "routing" /\ fetcher' = "fetching" =>
         /\ DOMAIN nextHop' = DOMAIN nodes'
         /\ \A i, j \in DOMAIN nodes' :
              topology'[i][j] = Weight(nodes'[i], nodes'[j])
         /\ Knows(Self)' => nodes'[source'].name = Self]_vars

(***************************************************************************)
(* RouteTerminates: a round of route() settles every node, those that no   *)
(* path reaches included, and gives the fetch thread back.                 *)
(***************************************************************************)
RouteTerminates == (fetcher = "resetting") ~> (fetcher = "fetching")

(***************************************************************************)
(* NextHopIsNext: what the comment on nextHop in NetworkManager.h says of  *)
(* a destination two or more relays away: the entry is the next node of    *)
(* the shortest path to it.  The first link of a shortest path is itself   *)
(* a shortest path.                                                        *)
(***************************************************************************)
NextHopIsNext ==
    Routed =>
      \A j \in DOMAIN nextHop \ {source} : Reached(j) =>
        topology[source][nextHop[j]] = minDist[nextHop[j]]
=============================================================================
