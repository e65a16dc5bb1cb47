-------------------------- MODULE DirectoryProofs ---------------------------
(***************************************************************************)
(* What is proved of Directory for any number of processes: TypeOK and     *)
(* CacheDistinct with any names, addresses and faults;                     *)
(* PositionsNeverGoBack with names of their own and any faults but         *)
(* time-outs; SessionIsListed, GoneStaysGone, SourceIsKnown and, with      *)
(* addresses of their own as well, RunsUntilQuit without faults.           *)
(***************************************************************************)
EXTENDS Directory, SequenceTheorems, TLAPS

-----------------------------------------------------------------------------
(* Type correctness.                                                       *)

LEMMA InitType == Init => TypeOK
<1> SUFFICES ASSUME Init PROVE TypeOK
  OBVIOUS
<1> USE DEF Init, RegistryInit
<1>1. cache \in [Proc -> Seq(NodeEntry)]
  BY EmptySeq
<1>2. pc \in [Proc -> [Thread -> Place]]
  BY DEF Everywhere, Place
<1>3. coords \in [Proc -> Coordinates] /\ readX \in [Proc -> 0 .. MaxMoves]
  BY DirectoryAssumption DEF Coordinates
<1> QED
  BY <1>1, <1>2, <1>3, DirectoryAssumption DEF TypeOK

LEMMA GotoType ==
    ASSUME TypeOK, NEW p \in Proc, NEW t \in Thread, NEW place \in Place,
           Goto(p, t, place)
    PROVE  pc' \in [Proc -> [Thread -> Place]]
BY DEF TypeOK, Goto

(* The coordinates a node can have, and those of a torn payload.           *)
LEMMA CoordinatesType ==
    ASSUME TypeOK, NEW p \in Proc
    PROVE  /\ coords[p] \in Coordinates
           /\ coords[p][1] \in 0 .. MaxMoves
           /\ coords[p][2] \in 0 .. MaxMoves
           /\ NextMove(coords[p][1]) \in 0 .. MaxMoves
           /\ NextMove(coords[p][2]) \in 0 .. MaxMoves
<1>1. /\ coords[p] \in Coordinates
      /\ coords[p][1] \in 0 .. MaxMoves
      /\ coords[p][2] \in 0 .. MaxMoves
  BY DEF TypeOK, Coordinates
<1>2. ASSUME NEW k \in 0 .. MaxMoves PROVE NextMove(k) \in 0 .. MaxMoves
  BY DirectoryAssumption DEF NextMove
<1> QED
  BY <1>1, <1>2

LEMMA SendType ==
    ASSUME TypeOK, NEW p \in Proc, NEW t \in Thread,
           NEW action \in {"register", "deregister", "update", "list"},
           NEW payload \in Coordinates,
           Send(p, t, action, payload)
    PROVE  /\ registry' \subseteq ListedEntry /\ pushes' \in Nat
           /\ requests' \subseteq Request
           /\ pc' \in [Proc -> [Thread -> Place]]
<1>1. pc' \in [Proc -> [Thread -> Place]]
  BY GotoType DEF Send, Place
<1>2. NameOf[p] \in STRING /\ AddrOf[p] \in STRING
  BY DirectoryAssumption
<1>3. requests' \subseteq Request
  <2> DEFINE r == [from |-> p, thread |-> t, action |-> action,
                   name |-> NameOf[p], addr |-> AddrOf[p], coords |-> payload,
                   awaited |-> TRUE, cut |-> FALSE, tag |-> 0]
  <2>1. r \in Request
    BY <1>2 DEF Request
  <2>2. requests' = requests \cup {r}
    BY DEF Send
  <2> QED
    BY <2>1, <2>2 DEF TypeOK
<1> QED
  BY <1>1, <1>3 DEF Send, TypeOK

LEMMA DieType ==
    ASSUME TypeOK, NEW p \in Proc, Die(p), faults' \in 0 .. MaxFaults
    PROVE  TypeOK'
<1>1. pc' \in [Proc -> [Thread -> Place]]
  BY DEF Die, TypeOK, Everywhere, Place
<1>2. requests' \subseteq Request
  <2>1. ASSUME NEW r \in Request PROVE [r EXCEPT !.awaited = FALSE] \in Request
    BY DEF Request
  <2>2. requests' = {IF r.from = p THEN [r EXCEPT !.awaited = FALSE] ELSE r :
                       r \in requests}
    BY DEF Die
  <2>3. requests \subseteq Request
    BY DEF TypeOK
  <2> QED
    BY <2>1, <2>2, <2>3
<1> QED
  BY <1>1, <1>2 DEF Die, TypeOK, nodeVars

LEMMA ReturnType ==
    ASSUME TypeOK, NEW r \in requests, NEW found \in SUBSET ListedEntry,
           Return(r, found)
    PROVE  /\ pc' \in [Proc -> [Thread -> Place]]
           /\ listing' \in [Proc -> SUBSET ListedEntry]
<1>1. /\ r.from \in Proc /\ r.thread \in Thread
      /\ r.action \in {"register", "deregister", "update", "list"}
  BY DEF TypeOK, Request
<1>2. After(r.action) \in Place
  BY <1>1 DEF After, Place
<1> QED
  BY <1>1, <1>2, GotoType DEF Return, TypeOK

LEMMA ProcessType ==
    ASSUME TypeOK, NEW r \in requests, ProcessRequest(r)
    PROVE  registry' \subseteq ListedEntry /\ pushes' \in Nat
<1>1. r \in Request
  BY DEF TypeOK
<1>2. \A at \in Nat : EntryOf(r, at) \in ListedEntry
  BY <1>1 DEF EntryOf, Request, ListedEntry
<1>3. pushes \in Nat /\ registry \subseteq ListedEntry
  BY DEF TypeOK
<1>4. CASE RegisterNode(r)
  BY <1>2, <1>3, <1>4 DEF RegisterNode
<1>5. CASE DeregisterNode(r)
  BY <1>3, <1>5 DEF DeregisterNode
<1>6. CASE UpdateNode(r)
  <2>1. \A e \in registry : e.at \in Nat
    BY <1>3 DEF ListedEntry
  <2> QED
    BY <1>2, <1>3, <1>6, <2>1 DEF UpdateNode
<1>7. CASE UNCHANGED <<registry, pushes>>
  BY <1>3, <1>7
<1> QED
  BY <1>4, <1>5, <1>6, <1>7 DEF ProcessRequest

LEMMA WithNodeType ==
    ASSUME TypeOK, NEW p \in Proc, NEW e \in ListedEntry
    PROVE  WithNode(p, e) \in Seq(NodeEntry)
<1> DEFINE c == cache[p]
           n == Len(c)
           refreshed(i) == IF IsFirstNamed(p, i, e.name)
                           THEN [c[i] EXCEPT !.coords = e.coords] ELSE c[i]
<1>1. /\ c \in Seq(NodeEntry) /\ n \in Nat /\ DOMAIN c = 1 .. n
      /\ \A i \in 1 .. n : c[i] \in NodeEntry
  BY LenProperties DEF TypeOK
<1>2. CASE NodeExists(p, e)
  <2>1. \A i \in 1 .. n : refreshed(i) \in NodeEntry
    BY <1>1 DEF NodeEntry, ListedEntry
  <2>2. [i \in 1 .. n |-> refreshed(i)] \in [1 .. n -> NodeEntry]
    BY <2>1
  <2>3. [i \in 1 .. n |-> refreshed(i)] \in Seq(NodeEntry)
    BY <1>1, <2>2, SeqDef
  <2> QED
    BY <1>1, <1>2, <2>3 DEF WithNode
<1>3. CASE ~NodeExists(p, e)
  <2>1. NodeOf(e) \in NodeEntry
    BY DEF NodeOf, NodeEntry, ListedEntry
  <2> QED
    BY <1>1, <1>3, <2>1, AppendProperties DEF WithNode
<1> QED
  BY <1>2, <1>3

LEMMA TypeStep ==
    ASSUME TypeOK, [Next]_vars
    PROVE  TypeOK'
<1> USE DEF registryVars, nodeVars
<1>1. ASSUME NEW p \in Proc, Launch(p)
      PROVE  TypeOK'
  <2>1. pc' \in [Proc -> [Thread -> Place]]
    BY <1>1 DEF Launch, TypeOK, Place
  <2> QED
    BY <1>1, <2>1 DEF Launch, TypeOK
<1>2. ASSUME NEW p \in Proc, Quit(p)
      PROVE  TypeOK'
  <2>1. Send(p, "main", "deregister", coords[p]) /\ coords[p] \in Coordinates
    BY <1>2, CoordinatesType DEF Quit
  <2>2. "main" \in Thread
    BY DEF Thread
  <2>3. /\ registry' \subseteq ListedEntry /\ pushes' \in Nat
        /\ requests' \subseteq Request /\ pc' \in [Proc -> [Thread -> Place]]
    BY <2>1, <2>2, SendType
  <2> QED
    BY <1>2, <2>3 DEF Quit, TypeOK
<1>3. ASSUME NEW p \in Proc, MainThread(p)
      PROVE  TypeOK'
  <2>0. "main" \in Thread
    BY DEF Thread
  <2>1. CASE ReadX(p)
    <3>1. pc' \in [Proc -> [Thread -> Place]]
      BY <2>0, <2>1, GotoType DEF ReadX, Place
    <3>2. readX' \in [Proc -> 0 .. MaxMoves]
      BY <2>1, CoordinatesType DEF ReadX, TypeOK
    <3> QED
      BY <2>1, <3>1, <3>2 DEF ReadX, TypeOK
  <2>2. CASE Register(p)
    <3>1. <<readX[p], coords[p][2]>> \in Coordinates
      BY CoordinatesType DEF TypeOK, Coordinates
    <3>2. /\ registry' \subseteq ListedEntry /\ pushes' \in Nat
          /\ requests' \subseteq Request /\ pc' \in [Proc -> [Thread -> Place]]
      BY <2>0, <2>2, <3>1, SendType DEF Register
    <3> QED
      BY <2>2, <3>2 DEF Register, TypeOK
  <2>3. CASE Bind(p)
    <3>1. pc' \in [Proc -> [Thread -> Place]]
      BY <2>3 DEF Bind, TypeOK, Place
    <3> QED
      BY <2>3, <3>1 DEF Bind, TypeOK
  <2>4. CASE BindFails(p)
    BY <2>4, DieType DEF BindFails, TypeOK
  <2>5. CASE JoinThreads(p)
    <3>1. pc' \in [Proc -> [Thread -> Place]]
      BY <2>0, <2>5, GotoType DEF JoinThreads, Place
    <3> QED
      BY <2>5, <3>1 DEF JoinThreads, TypeOK
  <2> QED
    BY <1>3, <2>1, <2>2, <2>3, <2>4, <2>5 DEF MainThread
<1>4. ASSUME NEW p \in Proc, PositionThread(p)
      PROVE  TypeOK'
  <2>0. "position" \in Thread
    BY DEF Thread
  <2>1. CASE MoveX(p)
    <3>1. pc' \in [Proc -> [Thread -> Place]]
      BY <2>0, <2>1, GotoType DEF MoveX, Place
    <3>2. coords' \in [Proc -> Coordinates]
      <4>1. <<NextMove(coords[p][1]), coords[p][2]>> \in Coordinates
        BY CoordinatesType DEF Coordinates
      <4> QED
        BY <2>1, <4>1 DEF MoveX, TypeOK
    <3> QED
      BY <2>1, <3>1, <3>2 DEF MoveX, TypeOK
  <2>2. CASE MoveY(p)
    <3>1. <<coords[p][1], NextMove(coords[p][2])>> \in Coordinates
      BY CoordinatesType DEF Coordinates
    <3>2. coords' \in [Proc -> Coordinates] /\ coords'[p] \in Coordinates
      BY <2>2, <3>1 DEF MoveY, TypeOK
    <3>3. /\ registry' \subseteq ListedEntry /\ pushes' \in Nat
          /\ requests' \subseteq Request /\ pc' \in [Proc -> [Thread -> Place]]
      BY <2>0, <2>2, <3>2, SendType DEF MoveY
    <3> QED
      BY <2>2, <3>2, <3>3 DEF MoveY, TypeOK
  <2>3. CASE StopMoving(p)
    <3>1. pc' \in [Proc -> [Thread -> Place]]
      BY <2>0, <2>3, GotoType DEF StopMoving, Place
    <3> QED
      BY <2>3, <3>1 DEF StopMoving, TypeOK
  <2> QED
    BY <1>4, <2>1, <2>2, <2>3 DEF PositionThread
<1>5. ASSUME NEW p \in Proc, FetchThread(p)
      PROVE  TypeOK'
  <2>0. "fetch" \in Thread
    BY DEF Thread
  <2>1. CASE FetchNodes(p)
    <3>1. <<0, 0>> \in Coordinates
      BY DirectoryAssumption DEF Coordinates
    <3>2. /\ registry' \subseteq ListedEntry /\ pushes' \in Nat
          /\ requests' \subseteq Request /\ pc' \in [Proc -> [Thread -> Place]]
      BY <2>0, <2>1, <3>1, SendType DEF FetchNodes
    <3> QED
      BY <2>1, <3>2 DEF FetchNodes, TypeOK
  <2>2. CASE AddNode(p)
    <3>1. PICK e \in listing[p] :
            /\ cache' = [cache EXCEPT ![p] = WithNode(p, e)]
            /\ listing' = [listing EXCEPT ![p] = @ \ {e}]
      BY <2>2 DEF AddNode
    <3>2. e \in ListedEntry
      BY DEF TypeOK
    <3>3. cache' \in [Proc -> Seq(NodeEntry)]
      BY <3>1, <3>2, WithNodeType DEF TypeOK
    <3>4. listing' \in [Proc -> SUBSET ListedEntry]
      BY <3>1 DEF TypeOK
    <3> QED
      BY <2>2, <3>3, <3>4 DEF AddNode, TypeOK
  <2>3. CASE UpdateRoutingTable(p)
    <3>1. Len(cache[p]) \in Nat
      BY LenProperties DEF TypeOK
    <3>2. table' \in [Proc -> Nat]
      BY <2>3, <3>1 DEF UpdateRoutingTable, TypeOK
    <3>3. pc' \in [Proc -> [Thread -> Place]]
      BY <2>0, <2>3, GotoType DEF UpdateRoutingTable, Place
    <3> QED
      BY <2>3, <3>2, <3>3 DEF UpdateRoutingTable, TypeOK
  <2>4. CASE RouteWithoutNodes(p)
    BY <2>4, DieType DEF RouteWithoutNodes, TypeOK
  <2>5. CASE StopFetching(p)
    <3>1. pc' \in [Proc -> [Thread -> Place]]
      BY <2>0, <2>5, GotoType DEF StopFetching, Place
    <3> QED
      BY <2>5, <3>1 DEF StopFetching, TypeOK
  <2> QED
    BY <1>5, <2>1, <2>2, <2>3, <2>4, <2>5 DEF FetchThread
<1>6. ASSUME NEW p \in Proc, DatagramArrives(p) \/ ReceiveLoop(p)
      PROVE  TypeOK'
  <2>0. "receiver" \in Thread
    BY DEF Thread
  <2>1. pc' \in [Proc -> [Thread -> Place]]
    BY <1>6, <2>0, GotoType DEF DatagramArrives, ReceiveLoop, Place
  <2> QED
    BY <1>6, <2>1 DEF DatagramArrives, ReceiveLoop, TypeOK
<1>7. ASSUME NEW p \in Proc, NEW t \in Thread, HandleClient(p, t)
      PROVE  TypeOK'
  <2>1. PICK r \in requests :
          /\ ProcessRequest(r)
          /\ requests' = requests \ {r}
          /\ Return(r, registry)
    BY <1>7 DEF HandleClient
  <2>2. registry' \subseteq ListedEntry /\ pushes' \in Nat
    BY <2>1, ProcessType
  <2>3. registry \in SUBSET ListedEntry
    BY DEF TypeOK
  <2>4. /\ pc' \in [Proc -> [Thread -> Place]]
        /\ listing' \in [Proc -> SUBSET ListedEntry]
    BY <2>1, <2>3, ReturnType
  <2> QED
    BY <1>7, <2>1, <2>2, <2>4 DEF HandleClient, TypeOK
<1>8. ASSUME NEW p \in Proc, Kill(p)
      PROVE  TypeOK'
  <2>1. faults' \in 0 .. MaxFaults
    BY <1>8, DirectoryAssumption DEF Kill, FaultHappens, TypeOK
  <2> QED
    BY <1>8, <2>1, DieType DEF Kill
<1>9. CASE RequestFails \/ CutRequestFails
  <2>1. PICK r \in requests : EndWithoutEffect(r)
    BY <1>9 DEF RequestFails, CutRequestFails
  <2>2. /\ pc' \in [Proc -> [Thread -> Place]]
        /\ listing' \in [Proc -> SUBSET ListedEntry]
    BY <2>1, ReturnType DEF EndWithoutEffect
  <2>3. faults' \in 0 .. MaxFaults
    BY <1>9, DirectoryAssumption DEF RequestFails, CutRequestFails, FaultHappens, TypeOK
  <2> QED
    BY <2>1, <2>2, <2>3 DEF EndWithoutEffect, TypeOK
<1>10. CASE RequestTimesOut
  <2>1. PICK r \in requests :
          /\ requests' = (requests \ {r})
                           \cup {[r EXCEPT !.awaited = FALSE, !.tag = faults']}
          /\ Return(r, {})
    BY <1>10 DEF RequestTimesOut
  <2>2. /\ pc' \in [Proc -> [Thread -> Place]]
        /\ listing' \in [Proc -> SUBSET ListedEntry]
    BY <2>1, ReturnType
  <2>3. faults' \in 0 .. MaxFaults /\ faults' \in Nat
    BY <1>10, DirectoryAssumption DEF RequestTimesOut, FaultHappens, TypeOK
  <2>4. r \in Request
    BY DEF TypeOK
  <2>5. [r EXCEPT !.awaited = FALSE, !.tag = faults'] \in Request
    BY <2>3, <2>4 DEF Request
  <2>6. requests' \subseteq Request
    BY <2>1, <2>5 DEF TypeOK
  <2> QED
    BY <1>10, <2>2, <2>3, <2>6 DEF RequestTimesOut, TypeOK
<1>11. CASE RestartRegistry
  <2>1. faults' \in 0 .. MaxFaults
    BY <1>11, DirectoryAssumption DEF RestartRegistry, FaultHappens, TypeOK
  <2>2. ASSUME NEW r \in Request PROVE [r EXCEPT !.cut = TRUE] \in Request
    BY DEF Request
  <2>3. requests' = {[r EXCEPT !.cut = TRUE] : r \in requests}
    BY <1>11 DEF RestartRegistry
  <2>4. requests' \subseteq Request
    BY <2>2, <2>3 DEF TypeOK
  <2> QED
    BY <1>11, <2>1, <2>4 DEF RestartRegistry, TypeOK
<1>12. CASE UNCHANGED vars
  BY <1>12 DEF vars, TypeOK
<1> QED
  BY <1>1, <1>2, <1>3, <1>4, <1>5, <1>6, <1>7, <1>8, <1>9, <1>10, <1>11, <1>12
     DEF Next, User, Registry

(***************************************************************************)
(* The registry, its requests and all threads keep their types.            *)
(***************************************************************************)
THEOREM TypeCorrect == Spec => []TypeOK
BY InitType, TypeStep, PTL DEF Spec
-----------------------------------------------------------------------------
(* A node is in a list once.                                               *)

LEMMA WithNodeDistinct ==
    ASSUME TypeOK, CacheDistinct, NEW p \in Proc, NEW e \in ListedEntry,
           NEW i \in DOMAIN WithNode(p, e), NEW j \in DOMAIN WithNode(p, e),
           WithNode(p, e)[i].name = WithNode(p, e)[j].name,
           WithNode(p, e)[i].addr = WithNode(p, e)[j].addr
    PROVE  i = j
<1> DEFINE c == cache[p]
           d == WithNode(p, e)
<1>1. /\ c \in Seq(NodeEntry) /\ Len(c) \in Nat /\ DOMAIN c = 1 .. Len(c)
      /\ \A k \in DOMAIN c : c[k] \in NodeEntry
  BY LenProperties DEF TypeOK
<1>2. \A k, m \in DOMAIN c : c[k].name = c[m].name /\ c[k].addr = c[m].addr => k = m
  BY DEF CacheDistinct
<1>3. CASE NodeExists(p, e)
  <2>1. DOMAIN d = DOMAIN c
    BY <1>3 DEF WithNode
  <2>2. \A k \in DOMAIN c : d[k].name = c[k].name /\ d[k].addr = c[k].addr
    BY <1>1, <1>3 DEF WithNode, NodeEntry
  <2> QED
    BY <1>2, <2>1, <2>2
<1>4. CASE ~NodeExists(p, e)
  <2>1. NodeOf(e) \in NodeEntry
    BY DEF NodeOf, NodeEntry, ListedEntry
  <2>2. /\ DOMAIN d = 1 .. Len(c) + 1
        /\ \A k \in 1 .. Len(c) : d[k] = c[k]
        /\ d[Len(c) + 1] = NodeOf(e)
    BY <1>1, <1>4, <2>1, AppendProperties, LenProperties DEF WithNode
  <2>3. \A k \in 1 .. Len(c) : ~(c[k].name = e.name /\ c[k].addr = e.addr)
    BY <1>1, <1>4 DEF NodeExists
  <2>4. /\ i \in 1 .. Len(c) \/ i = Len(c) + 1
        /\ j \in 1 .. Len(c) \/ j = Len(c) + 1
        /\ Len(c) + 1 \notin 1 .. Len(c)
    BY <1>1, <2>2
  <2>5. d[Len(c) + 1].name = e.name /\ d[Len(c) + 1].addr = e.addr
    BY <2>2 DEF NodeOf
  <2>6. d[i].name = d[j].name /\ d[i].addr = d[j].addr
    OBVIOUS
  <2>7. CASE i \in 1 .. Len(c) /\ j \in 1 .. Len(c)
    <3>1. c[i].name = c[j].name /\ c[i].addr = c[j].addr
      BY <2>2, <2>6, <2>7
    <3> QED
      BY <1>1, <1>2, <2>7, <3>1
  <2>8. CASE i \in 1 .. Len(c) /\ j = Len(c) + 1
    BY <2>2, <2>3, <2>5, <2>6, <2>8
  <2>9. CASE i = Len(c) + 1 /\ j \in 1 .. Len(c)
    BY <2>2, <2>3, <2>5, <2>6, <2>9
  <2> QED
    BY <2>4, <2>7, <2>8, <2>9
<1> QED
  BY <1>3, <1>4

(***************************************************************************)
(* No process has a node in its list twice under one address, whatever the *)
(* registry listed and however requests failed.                            *)
(***************************************************************************)
THEOREM NodesAreDistinct == Spec => []CacheDistinct
<1>1. Init => CacheDistinct
  BY DEF Init, CacheDistinct
<1>2. ASSUME TypeOK, CacheDistinct, [Next]_vars PROVE CacheDistinct'
  <2>1. ASSUME NEW p \in Proc, AddNode(p) PROVE CacheDistinct'
    <3>1. PICK e \in listing[p] : cache' = [cache EXCEPT ![p] = WithNode(p, e)]
      BY <2>1 DEF AddNode
    <3>2. e \in ListedEntry /\ cache'[p] = WithNode(p, e)
      BY <1>2, <3>1 DEF TypeOK
    <3>3. \A q \in Proc \ {p} : cache'[q] = cache[q]
      BY <1>2, <3>1 DEF TypeOK
    <3>4. \A i, j \in DOMAIN cache'[p] :
            cache'[p][i].name = cache'[p][j].name /\ cache'[p][i].addr = cache'[p][j].addr
              => i = j
      BY <1>2, <3>2, WithNodeDistinct
    <3>5. \A q \in Proc \ {p} : \A i, j \in DOMAIN cache'[q] :
            cache'[q][i].name = cache'[q][j].name /\ cache'[q][i].addr = cache'[q][j].addr
              => i = j
      BY <1>2, <3>3 DEF CacheDistinct
    <3> QED
      BY <3>4, <3>5 DEF CacheDistinct
  <2>2. CASE UNCHANGED cache
    BY <1>2, <2>2 DEF CacheDistinct
  <2> QED
    BY <1>2, <2>1, <2>2
       DEF Next, User, MainThread, PositionThread, FetchThread, Registry,
           Launch, Quit, ReadX, Register, Bind, BindFails, JoinThreads, MoveX,
           MoveY, StopMoving, FetchNodes, UpdateRoutingTable, RouteWithoutNodes,
           StopFetching, DatagramArrives, ReceiveLoop, HandleClient, Kill,
           RequestFails, CutRequestFails, EndWithoutEffect, RequestTimesOut,
           RestartRegistry, Die, nodeVars, vars
<1> QED
  BY <1>1, <1>2, TypeCorrect, PTL DEF Spec
-----------------------------------------------------------------------------
(* Who is listed, when names are unique and no fault happens.              *)

(***************************************************************************)
(* A request is from the thread that waits for it in the place named after *)
(* it, or from a process that has died; no process dies while registering. *)
(***************************************************************************)
RequestInv ==
    /\ \A r \in requests :
         /\ r.name = NameOf[r.from] /\ r.addr = AddrOf[r.from] /\ ~r.cut
         /\ r.action \in {"register", "deregister"} <=> r.thread = "main"
         /\ r.thread # "receiver"
         /\ r.awaited => pc[r.from][r.thread] = r.action
         /\ ~r.awaited => pc[r.from]["main"] = "dead" /\ r.action # "register"
    /\ \A r, q \in requests :
         r.awaited /\ q.awaited /\ r.from = q.from /\ r.thread = q.thread => r = q

(* A process has no fetch thread before bind, and no thread once it died.  *)
ThreadInv ==
    \A p \in Proc :
        /\ pc[p]["main"] \in {"off", "payload", "payloadY", "register", "bind"}
             => pc[p]["fetch"] = "off"
        /\ pc[p]["main"] = "dead" => pc[p] = Everywhere("dead")
        /\ pc[p]["main"] = "off" => pc[p] = Everywhere("off")

(* The list, as the program of each process has it.                        *)
RosterInv ==
    \A p \in Proc :
        /\ pc[p]["main"] \in {"off", "payload", "payloadY", "register", "join", "exited"}
             => ListedAs(p) = {}
        /\ pc[p]["main"] \in {"bind", "input"}
             => \E e \in registry : ListedAs(p) = {e} /\ e.addr = AddrOf[p]

SessionInv == TypeOK /\ RequestInv /\ ThreadInv /\ RosterInv

Waiting == {"register", "deregister", "update", "list"}

(* A thread that is not waiting for a reply goes from one place to another. *)
LEMMA LocalMove ==
    ASSUME SessionInv, NEW p \in Proc, NEW t \in Thread, NEW place \in Place,
           Goto(p, t, place), UNCHANGED <<registry, requests>>,
           pc[p][t] \notin Waiting \cup {"off", "dead"},
           place \notin {"off", "dead"},
           t = "main" => \/ pc[p][t] = "payload" /\ place = "payloadY"
                         \/ pc[p][t] = "join" /\ place = "exited"
    PROVE  RequestInv' /\ ThreadInv' /\ RosterInv'
<1>1. /\ pc' = [pc EXCEPT ![p][t] = place]
      /\ pc \in [Proc -> [Thread -> Place]]
      /\ "main" \in Thread /\ "fetch" \in Thread
  BY DEF Goto, SessionInv, TypeOK, Thread
<1>2. /\ \A q \in Proc \ {p} : pc'[q] = pc[q]
      /\ \A u \in Thread \ {t} : pc'[p][u] = pc[p][u]
      /\ pc'[p][t] = place
  BY <1>1
<1>3. pc[p]["main"] \notin {"off", "dead"}
  BY DEF SessionInv, ThreadInv, Everywhere
<1>4. RequestInv'
  <2>1. ASSUME NEW r \in requests
        PROVE  /\ r.awaited => pc'[r.from][r.thread] = r.action
               /\ ~r.awaited => pc'[r.from]["main"] = "dead" /\ r.action # "register"
    <3>1. r.from \in Proc /\ r.thread \in Thread /\ r.action \in Waiting
      BY DEF SessionInv, TypeOK, Request, Waiting
    <3>2. /\ r.awaited => pc[r.from][r.thread] = r.action
          /\ ~r.awaited => pc[r.from]["main"] = "dead" /\ r.action # "register"
      BY DEF SessionInv, RequestInv
    <3> QED
      BY <1>1, <1>2, <1>3, <3>1, <3>2
  <2> QED
    BY <2>1 DEF SessionInv, RequestInv
<1>5. ThreadInv'
  BY <1>1, <1>2, <1>3 DEF SessionInv, ThreadInv
<1>6. RosterInv'
  <2>1. \A q \in Proc : ListedAs(q)' = ListedAs(q)
    BY DEF ListedAs, Named
  <2> QED
    BY <1>1, <1>2, <2>1 DEF SessionInv, RosterInv
<1> QED
  BY <1>4, <1>5, <1>6

(* A thread sends a request.                                               *)
LEMMA SendKeeps ==
    ASSUME SessionInv, NEW p \in Proc, NEW t \in Thread, NEW action \in Waiting,
           NEW payload \in Coordinates,
           Send(p, t, action, payload),
           pc[p][t] \notin Waiting \cup {"off", "dead"},
           action \in {"register", "deregister"} <=> t = "main",
           t # "receiver",
           t = "main" => \/ pc[p][t] = "payloadY" /\ action = "register"
                         \/ pc[p][t] = "input" /\ action = "deregister"
    PROVE  RequestInv' /\ ThreadInv' /\ RosterInv'
<1> DEFINE new == [from |-> p, thread |-> t, action |-> action,
                   name |-> NameOf[p], addr |-> AddrOf[p], coords |-> payload,
                   awaited |-> TRUE, cut |-> FALSE, tag |-> 0]
<1>1. /\ pc' = [pc EXCEPT ![p][t] = action]
      /\ pc \in [Proc -> [Thread -> Place]]
      /\ "main" \in Thread /\ "fetch" \in Thread
      /\ registry' = registry
      /\ requests' = requests \cup {new}
  BY DEF Send, Goto, SessionInv, TypeOK, Thread
<1>2. /\ \A q \in Proc \ {p} : pc'[q] = pc[q]
      /\ \A u \in Thread \ {t} : pc'[p][u] = pc[p][u]
      /\ pc'[p][t] = action
  BY <1>1
<1>3. pc[p]["main"] \notin {"off", "dead"}
  BY DEF SessionInv, ThreadInv, Everywhere
<1>4. RequestInv'
  <2>1. ASSUME NEW r \in requests
        PROVE  /\ r.name = NameOf[r.from] /\ r.addr = AddrOf[r.from] /\ ~r.cut
               /\ r.action \in {"register", "deregister"} <=> r.thread = "main"
               /\ r.thread # "receiver"
               /\ r.awaited => pc'[r.from][r.thread] = r.action
               /\ r.awaited => ~(r.from = p /\ r.thread = t)
               /\ ~r.awaited => pc'[r.from]["main"] = "dead" /\ r.action # "register"
    <3>1. r.from \in Proc /\ r.thread \in Thread /\ r.action \in Waiting
      BY DEF SessionInv, TypeOK, Request, Waiting
    <3>2. /\ r.name = NameOf[r.from] /\ r.addr = AddrOf[r.from] /\ ~r.cut
          /\ r.action \in {"register", "deregister"} <=> r.thread = "main"
          /\ r.thread # "receiver"
          /\ r.awaited => pc[r.from][r.thread] = r.action
          /\ ~r.awaited => pc[r.from]["main"] = "dead" /\ r.action # "register"
      BY DEF SessionInv, RequestInv
    <3> QED
      BY <1>1, <1>2, <1>3, <3>1, <3>2
  <2>2. /\ new.name = NameOf[new.from] /\ new.addr = AddrOf[new.from] /\ ~new.cut
        /\ new.action \in {"register", "deregister"} <=> new.thread = "main"
        /\ new.awaited /\ pc'[new.from][new.thread] = new.action
        /\ new.from = p /\ new.thread = t /\ new.thread # "receiver"
    BY <1>2
  <2>3. \A r, q \in requests :
          r.awaited /\ q.awaited /\ r.from = q.from /\ r.thread = q.thread => r = q
    BY DEF SessionInv, RequestInv
  <2> HIDE DEF new
  <2> QED
    BY <1>1, <2>1, <2>2, <2>3 DEF RequestInv
<1>5. ThreadInv'
  BY <1>1, <1>2, <1>3 DEF SessionInv, ThreadInv, Waiting
<1>6. RosterInv'
  <2>1. \A q \in Proc : ListedAs(q)' = ListedAs(q)
    BY <1>1 DEF ListedAs, Named
  <2> QED
    BY <1>1, <1>2, <2>1 DEF SessionInv, RosterInv, Waiting
<1> QED
  BY <1>4, <1>5, <1>6

(* A process dies, but not while it is registering.                        *)
LEMMA DieKeeps ==
    ASSUME SessionInv, NEW p \in Proc, Die(p), pc[p]["main"] # "register"
    PROVE  RequestInv' /\ ThreadInv' /\ RosterInv'
<1> DEFINE after(r) == IF r.from = p THEN [r EXCEPT !.awaited = FALSE] ELSE r
<1>1. /\ pc' = [pc EXCEPT ![p] = Everywhere("dead")]
      /\ pc \in [Proc -> [Thread -> Place]]
      /\ "main" \in Thread
      /\ registry' = registry
      /\ requests' = {after(r) : r \in requests}
  BY DEF Die, SessionInv, TypeOK, Thread
<1>2. /\ \A q \in Proc \ {p} : pc'[q] = pc[q]
      /\ pc'[p] = Everywhere("dead") /\ pc'[p]["main"] = "dead"
  BY <1>1 DEF Everywhere
<1>3. ASSUME NEW r \in requests
      PROVE  /\ after(r).name = NameOf[after(r).from] /\ after(r).addr = AddrOf[after(r).from]
             /\ ~after(r).cut
             /\ after(r).action \in {"register", "deregister"} <=> after(r).thread = "main"
             /\ after(r).thread # "receiver"
             /\ after(r).awaited => /\ after(r) = r
                                    /\ pc'[after(r).from][after(r).thread] = after(r).action
             /\ ~after(r).awaited => /\ pc'[after(r).from]["main"] = "dead"
                                     /\ after(r).action # "register"
  <2>1. r \in Request
    BY DEF SessionInv, TypeOK
  <2>2. /\ r.name = NameOf[r.from] /\ r.addr = AddrOf[r.from] /\ ~r.cut
        /\ r.action \in {"register", "deregister"} <=> r.thread = "main"
        /\ r.thread # "receiver"
        /\ r.awaited => pc[r.from][r.thread] = r.action
        /\ ~r.awaited => pc[r.from]["main"] = "dead" /\ r.action # "register"
    BY DEF SessionInv, RequestInv
  <2>3. CASE r.from = p
    <3>1. r.action # "register"
      BY <2>2, <2>3
    <3>2. /\ after(r).name = r.name /\ after(r).addr = r.addr /\ after(r).from = r.from
          /\ after(r).cut = r.cut /\ after(r).action = r.action
          /\ after(r).thread = r.thread /\ after(r).awaited = FALSE
      BY <2>1, <2>3 DEF Request
    <3> QED
      BY <1>2, <2>2, <2>3, <3>1, <3>2
  <2>4. CASE r.from # p
    <3>1. r.from \in Proc /\ after(r) = r
      BY <2>1, <2>4 DEF Request
    <3> QED
      BY <1>2, <2>2, <2>4, <3>1
  <2> QED
    BY <2>3, <2>4
<1>4. RequestInv'
  <2>1. \A r, q \in requests :
          r.awaited /\ q.awaited /\ r.from = q.from /\ r.thread = q.thread => r = q
    BY DEF SessionInv, RequestInv
  <2> HIDE DEF after
  <2> QED
    BY <1>1, <1>3, <2>1 DEF RequestInv
<1>5. ThreadInv'
  BY <1>2 DEF SessionInv, ThreadInv
<1>6. RosterInv'
  <2>1. \A q \in Proc : ListedAs(q)' = ListedAs(q)
    BY <1>1 DEF ListedAs, Named
  <2> QED
    BY <1>1, <1>2, <2>1 DEF SessionInv, RosterInv
<1> QED
  BY <1>4, <1>5, <1>6
-----------------------------------------------------------------------------
(* What processing a request does to the list, when names are unique.      *)

LEMMA OthersStayListed ==
    ASSUME UniqueNames, SessionInv, NEW r \in requests, ProcessRequest(r),
           NEW q \in Proc, q # r.from
    PROVE  ListedAs(q)' = ListedAs(q)
<1>1. r.name = NameOf[r.from] /\ r.from \in Proc
  BY DEF SessionInv, TypeOK, RequestInv, Request
<1>2. r.name # NameOf[q]
  BY <1>1 DEF UniqueNames
<1>3. CASE RegisterNode(r)
  <2>1. EntryOf(r, pushes + 1).name # NameOf[q]
    BY <1>2 DEF EntryOf
  <2> QED
    BY <1>3, <2>1 DEF RegisterNode, ListedAs, Named
<1>4. CASE DeregisterNode(r)
  BY <1>2, <1>4 DEF DeregisterNode, ListedAs, Named
<1>5. CASE UpdateNode(r)
  <2> DEFINE updated(e) == IF IsFirstOf(e, Named(registry, r.name))
                           THEN EntryOf(r, e.at) ELSE e
  <2>1. registry' = {updated(e) : e \in registry}
    BY <1>5 DEF UpdateNode
  <2>2. ASSUME NEW e \in registry
        PROVE  \/ updated(e) = e
               \/ e.name # NameOf[q] /\ updated(e).name # NameOf[q]
    BY <1>2 DEF IsFirstOf, Named, EntryOf
  <2> HIDE DEF updated
  <2>3. {e \in registry' : e.name = NameOf[q]} = {e \in registry : e.name = NameOf[q]}
    BY <2>1, <2>2
  <2> QED
    BY <2>3 DEF ListedAs, Named
<1>6. CASE UNCHANGED registry
  BY <1>6 DEF ListedAs, Named
<1> QED
  BY <1>3, <1>4, <1>5, <1>6 DEF ProcessRequest

LEMMA RegisterLists ==
    ASSUME SessionInv, NEW r \in requests, RegisterNode(r), ListedAs(r.from) = {}
    PROVE  \E e \in registry' : ListedAs(r.from)' = {e} /\ e.addr = AddrOf[r.from]
<1> DEFINE new == EntryOf(r, pushes + 1)
<1>1. new.name = NameOf[r.from] /\ new.addr = AddrOf[r.from]
  BY DEF SessionInv, RequestInv, EntryOf
<1>2. registry' = registry \cup {new}
  BY DEF RegisterNode
<1> HIDE DEF new
<1>3. ListedAs(r.from)' = {new}
  BY <1>1, <1>2 DEF ListedAs, Named
<1> QED
  BY <1>1, <1>2, <1>3

LEMMA DeregisterForgets ==
    ASSUME SessionInv, NEW r \in requests, DeregisterNode(r)
    PROVE  ListedAs(r.from)' = {}
BY DEF SessionInv, RequestInv, DeregisterNode, ListedAs, Named

LEMMA UpdateKeepsListed ==
    ASSUME SessionInv, NEW r \in requests, UpdateNode(r)
    PROVE  /\ ListedAs(r.from) = {} => ListedAs(r.from)' = {}
           /\ (\E e \in registry : ListedAs(r.from) = {e} /\ e.addr = AddrOf[r.from])
                => \E e \in registry' : /\ ListedAs(r.from)' = {e}
                                        /\ e.addr = AddrOf[r.from]
<1> DEFINE updated(e) == IF IsFirstOf(e, Named(registry, r.name))
                         THEN EntryOf(r, e.at) ELSE e
<1>1. registry' = {updated(e) : e \in registry}
  BY DEF UpdateNode
<1>2. r.name = NameOf[r.from] /\ r.addr = AddrOf[r.from]
  BY DEF SessionInv, RequestInv
<1>3. ASSUME NEW e \in registry
      PROVE  /\ updated(e).name = e.name
             /\ e.addr = r.addr => updated(e).addr = r.addr
  BY DEF IsFirstOf, Named, EntryOf
<1> HIDE DEF updated
<1>4. CASE ListedAs(r.from) = {}
  <2>1. ListedAs(r.from)' = {}
    BY <1>1, <1>3, <1>4 DEF ListedAs, Named
  <2> QED
    BY <1>4, <2>1
<1>5. ASSUME NEW e \in registry, ListedAs(r.from) = {e}, e.addr = AddrOf[r.from]
      PROVE  \E f \in registry' : ListedAs(r.from)' = {f} /\ f.addr = AddrOf[r.from]
  <2>1. e.name = NameOf[r.from] /\ \A f \in registry : f.name = NameOf[r.from] => f = e
    BY <1>5 DEF ListedAs, Named
  <2>2. updated(e) \in registry' /\ updated(e).name = NameOf[r.from]
        /\ updated(e).addr = AddrOf[r.from]
    BY <1>1, <1>2, <1>3, <1>5, <2>1
  <2>3. \A f \in registry' : f.name = NameOf[r.from] => f = updated(e)
    BY <1>1, <1>3, <2>1
  <2>4. ListedAs(r.from)' = {updated(e)}
    BY <2>2, <2>3 DEF ListedAs, Named
  <2> QED
    BY <2>2, <2>4
<1> QED
  BY <1>4, <1>5

(* A request is processed.                                                 *)
LEMMA HandleKeeps ==
    ASSUME UniqueNames, SessionInv, NEW p \in Proc, NEW t \in Thread,
           HandleClient(p, t)
    PROVE  RequestInv' /\ ThreadInv' /\ RosterInv'
<1>1. PICK r \in requests : /\ r.from = p /\ r.thread = t
                            /\ ProcessRequest(r)
                            /\ requests' = requests \ {r}
                            /\ Return(r, registry)
  BY DEF HandleClient
<1>2. /\ pc \in [Proc -> [Thread -> Place]]
      /\ "main" \in Thread /\ "fetch" \in Thread
      /\ r.action \in Waiting
  BY DEF SessionInv, TypeOK, Request, Thread, Waiting
<1>3. /\ r.action \in {"register", "deregister"} <=> t = "main"
      /\ r.awaited => pc[p][t] = r.action
      /\ ~r.awaited => pc[p]["main"] = "dead" /\ r.action # "register"
  BY <1>1 DEF SessionInv, RequestInv
<1>4. \A q \in Proc \ {p} : ListedAs(q)' = ListedAs(q)
  BY <1>1, OthersStayListed
<1>5. After(r.action) \in {"bind", "join", "top", "apply"}
  BY <1>2 DEF After, Waiting
<1>6. /\ r.awaited => pc' = [pc EXCEPT ![p][t] = After(r.action)]
      /\ ~r.awaited => pc' = pc
  BY <1>1 DEF Return, Goto
<1>7. /\ \A q \in Proc \ {p} : pc'[q] = pc[q]
      /\ \A u \in Thread \ {t} : pc'[p][u] = pc[p][u]
      /\ r.awaited => pc'[p][t] = After(r.action)
      /\ ~r.awaited => pc'[p] = pc[p]
  BY <1>2, <1>6
<1>8. RequestInv'
  <2>1. ASSUME NEW q \in requests \ {r}
        PROVE  /\ q.awaited => pc'[q.from][q.thread] = q.action
               /\ ~q.awaited => pc'[q.from]["main"] = "dead" /\ q.action # "register"
    <3>1. q.from \in Proc /\ q.thread \in Thread
      BY DEF SessionInv, TypeOK, Request
    <3>2. /\ q.awaited => pc[q.from][q.thread] = q.action
          /\ ~q.awaited => pc[q.from]["main"] = "dead" /\ q.action # "register"
          /\ q.awaited /\ r.awaited => ~(q.from = p /\ q.thread = t)
      BY <1>1 DEF SessionInv, RequestInv
    <3>3. r.awaited => pc[p]["main"] # "dead"
      BY <1>2, <1>3 DEF SessionInv, ThreadInv, Everywhere, Waiting
    <3> QED
      BY <1>3, <1>7, <3>1, <3>2, <3>3
  <2> QED
    BY <1>1, <2>1 DEF SessionInv, RequestInv
<1>9. ThreadInv'
  <2>1. r.awaited => pc[p]["main"] \notin {"off", "dead"}
    BY <1>2, <1>3 DEF SessionInv, ThreadInv, Everywhere, Waiting
  <2>2. CASE r.awaited /\ t = "main"
    <3>1. \/ pc[p]["main"] = "register" /\ pc'[p]["main"] = "bind"
          \/ pc[p]["main"] = "deregister" /\ pc'[p]["main"] = "join"
      BY <1>3, <1>7, <2>2 DEF After
    <3> QED
      BY <1>2, <1>7, <2>2, <3>1 DEF SessionInv, ThreadInv
  <2>3. CASE r.awaited /\ t # "main"
    <3>1. /\ pc'[p]["main"] = pc[p]["main"]
          /\ pc'[p]["fetch"] = pc[p]["fetch"] \/ pc[p]["fetch"] \in Waiting
      BY <1>2, <1>3, <1>7, <2>3
    <3> QED
      BY <1>7, <2>1, <3>1 DEF SessionInv, ThreadInv, Waiting
  <2>4. CASE ~r.awaited
    BY <1>6, <2>4 DEF SessionInv, ThreadInv
  <2> QED
    BY <2>2, <2>3, <2>4
<1>10. RosterInv'
  <2>1. ASSUME NEW q \in Proc \ {p}
        PROVE  /\ pc'[q]["main"] \in {"off", "payload", "payloadY", "register", "join", "exited"}
                    => ListedAs(q)' = {}
               /\ pc'[q]["main"] \in {"bind", "input"}
                    => \E e \in registry' : ListedAs(q)' = {e} /\ e.addr = AddrOf[q]
    <3>1. pc'[q] = pc[q] /\ ListedAs(q)' = ListedAs(q)
      BY <1>4, <1>7
    <3>2. \A e : ListedAs(q)' = {e} => e \in registry'
      BY DEF ListedAs, Named
    <3> QED
      BY <3>1, <3>2 DEF SessionInv, RosterInv
  <2>2. /\ pc'[p]["main"] \in {"off", "payload", "payloadY", "register", "join", "exited"}
             => ListedAs(p)' = {}
        /\ pc'[p]["main"] \in {"bind", "input"}
             => \E e \in registry' : ListedAs(p)' = {e} /\ e.addr = AddrOf[p]
    <3>1. CASE RegisterNode(r) /\ r.action = "register"
      <4>1. pc[p]["main"] = "register" /\ pc'[p]["main"] = "bind"
        BY <1>3, <1>7, <3>1 DEF After
      <4>2. ListedAs(p) = {}
        BY <4>1 DEF SessionInv, RosterInv
      <4> QED
        BY <1>1, <3>1, <4>1, <4>2, RegisterLists
    <3>2. CASE DeregisterNode(r) /\ r.action = "deregister"
      <4>1. pc'[p]["main"] \in {"join", "dead"}
        BY <1>3, <1>7, <3>2 DEF After
      <4> QED
        BY <1>1, <3>2, <4>1, DeregisterForgets
    <3>3. CASE UpdateNode(r) /\ r.action = "update"
      <4>1. pc'[p]["main"] = pc[p]["main"]
        BY <1>2, <1>3, <1>7, <3>3
      <4> QED
        BY <1>1, <3>3, <4>1, UpdateKeepsListed DEF SessionInv, RosterInv
    <3>4. CASE UNCHANGED registry /\ r.action \in {"list", "getPublicKey"}
      <4>1. pc'[p]["main"] = pc[p]["main"]
        BY <1>2, <1>3, <1>7, <3>4
      <4>2. ListedAs(p)' = ListedAs(p)
        BY <3>4 DEF ListedAs, Named
      <4> QED
        BY <3>4, <4>1, <4>2 DEF SessionInv, RosterInv
    <3> QED
      BY <1>1, <3>1, <3>2, <3>3, <3>4 DEF ProcessRequest
  <2> QED
    BY <2>1, <2>2 DEF RosterInv
<1> QED
  BY <1>8, <1>9, <1>10

(* A process starts, or binds its socket and starts two more threads.      *)
LEMMA StartKeeps ==
    ASSUME SessionInv, NEW p \in Proc, Launch(p) \/ Bind(p)
    PROVE  RequestInv' /\ ThreadInv' /\ RosterInv'
<1>1. /\ pc \in [Proc -> [Thread -> Place]]
      /\ "main" \in Thread /\ "fetch" \in Thread
      /\ registry' = registry /\ requests' = requests
  BY DEF SessionInv, TypeOK, Thread, Launch, Bind, registryVars
<1>2. /\ \A q \in Proc \ {p} : pc'[q] = pc[q]
      /\ \/ /\ pc[p]["main"] = "off" /\ pc'[p]["main"] = "payload"
            /\ pc'[p]["fetch"] = pc[p]["fetch"]
         \/ /\ pc[p]["main"] = "bind" /\ pc'[p]["main"] = "input"
            /\ pc[p]["fetch"] = "off"
            /\ pc'[p]["fetch"] = "top" /\ pc'[p]["position"] = pc[p]["position"]
  <2>1. CASE Launch(p)
    BY <1>1, <2>1 DEF Launch, At
  <2>2. CASE Bind(p)
    BY <1>1, <2>2 DEF Bind, At, SessionInv, ThreadInv, Thread
  <2> QED
    BY <2>1, <2>2
<1>3. ASSUME NEW r \in requests, r.from = p
      PROVE  r.awaited /\ r.thread = "position" /\ pc'[p]["position"] = pc[p]["position"]
  <2>1. pc[p]["main"] \in {"off", "bind"} /\ r.awaited
    BY <1>2, <1>3 DEF SessionInv, RequestInv
  <2>2. /\ r.thread \in Thread /\ r.action \in Waiting /\ pc[p][r.thread] = r.action
        /\ r.thread # "receiver"
    BY <1>3, <2>1 DEF SessionInv, TypeOK, Request, RequestInv, Waiting
  <2>3. pc[p]["main"] = "bind"
    BY <2>1, <2>2 DEF SessionInv, ThreadInv, Everywhere, Waiting
  <2>4. pc[p]["fetch"] = "off" /\ pc'[p]["position"] = pc[p]["position"]
    BY <1>2, <2>3
  <2> QED
    BY <2>1, <2>2, <2>3, <2>4 DEF Thread, Waiting
<1>4. RequestInv'
  <2>1. ASSUME NEW r \in requests
        PROVE  /\ r.awaited => pc'[r.from][r.thread] = r.action
               /\ ~r.awaited => pc'[r.from]["main"] = "dead" /\ r.action # "register"
    <3>1. r.from \in Proc
      BY DEF SessionInv, TypeOK, Request
    <3>2. /\ r.awaited => pc[r.from][r.thread] = r.action
          /\ ~r.awaited => pc[r.from]["main"] = "dead" /\ r.action # "register"
      BY DEF SessionInv, RequestInv
    <3> QED
      BY <1>2, <1>3, <3>1, <3>2
  <2> QED
    BY <1>1, <2>1 DEF SessionInv, RequestInv
<1>5. ThreadInv'
  <2>1. pc[p]["main"] = "off" => pc[p]["fetch"] = "off"
    BY <1>1 DEF SessionInv, ThreadInv, Everywhere
  <2> QED
    BY <1>2, <2>1 DEF SessionInv, ThreadInv
<1>6. RosterInv'
  <2>1. \A q \in Proc : ListedAs(q)' = ListedAs(q)
    BY <1>1 DEF ListedAs, Named
  <2> QED
    BY <1>1, <1>2, <2>1 DEF SessionInv, RosterInv
<1> QED
  BY <1>4, <1>5, <1>6

(* Every step keeps the invariant if no fault can happen.                  *)
LEMMA SessionStep ==
    ASSUME UniqueNames, Faults = {}, SessionInv, [Next]_vars
    PROVE  RequestInv' /\ ThreadInv' /\ RosterInv'
<1> DEFINE Kept == RequestInv' /\ ThreadInv' /\ RosterInv'
<1>1. pc \in [Proc -> [Thread -> Place]] /\ Thread = {"main", "position", "fetch", "receiver"}
  BY DEF SessionInv, TypeOK, Thread
<1>2. ASSUME NEW p \in Proc, User(p) PROVE Kept
  <2>1. CASE Quit(p)
    <3>1. coords[p] \in Coordinates
      BY CoordinatesType DEF SessionInv
    <3> QED
      BY <2>1, <3>1, <1>1, SendKeeps DEF Quit, At, Waiting
  <2> QED
    BY <1>2, <2>1, StartKeeps DEF User
<1>3. ASSUME NEW p \in Proc, MainThread(p) PROVE Kept
  <2>1. CASE ReadX(p)
    BY <2>1, <1>1, LocalMove DEF ReadX, At, Place, Waiting, registryVars
  <2>2. CASE Register(p)
    <3>1. <<readX[p], coords[p][2]>> \in Coordinates
      BY CoordinatesType DEF SessionInv, TypeOK, Coordinates
    <3> QED
      BY <2>2, <3>1, <1>1, SendKeeps DEF Register, At, Waiting
  <2>3. CASE BindFails(p)
    BY <2>3, DieKeeps DEF BindFails, At
  <2>4. CASE JoinThreads(p)
    BY <2>4, <1>1, LocalMove DEF JoinThreads, At, Place, Waiting, registryVars
  <2> QED
    BY <1>3, <2>1, <2>2, <2>3, <2>4, StartKeeps DEF MainThread
<1>4. ASSUME NEW p \in Proc, PositionThread(p) PROVE Kept
  <2>1. CASE MoveX(p)
    BY <2>1, <1>1, LocalMove DEF MoveX, At, Place, Waiting, registryVars
  <2>2. CASE MoveY(p)
    <3>1. coords'[p] \in Coordinates
      BY <2>2, CoordinatesType DEF MoveY, SessionInv, TypeOK, Coordinates
    <3> QED
      BY <2>2, <3>1, <1>1, SendKeeps DEF MoveY, At, Waiting
  <2>3. CASE StopMoving(p)
    BY <2>3, <1>1, LocalMove DEF StopMoving, At, Place, Waiting, registryVars
  <2> QED
    BY <1>4, <2>1, <2>2, <2>3 DEF PositionThread
<1>5. ASSUME NEW p \in Proc, FetchThread(p) PROVE Kept
  <2>1. CASE FetchNodes(p)
    <3>1. <<0, 0>> \in Coordinates
      BY DirectoryAssumption DEF Coordinates
    <3> QED
      BY <2>1, <3>1, <1>1, SendKeeps DEF FetchNodes, At, Waiting
  <2>2. CASE AddNode(p)
    <3>1. UNCHANGED <<registry, requests, pc>>
      BY <2>2 DEF AddNode, registryVars
    <3> QED
      BY <3>1 DEF SessionInv, RequestInv, ThreadInv, RosterInv, ListedAs, Named
  <2>3. CASE UpdateRoutingTable(p)
    BY <2>3, <1>1, LocalMove DEF UpdateRoutingTable, At, Place, Waiting, registryVars
  <2>4. CASE RouteWithoutNodes(p)
    <3>1. pc[p]["main"] # "register"
      BY <2>4 DEF RouteWithoutNodes, At, SessionInv, ThreadInv
    <3> QED
      BY <2>4, <3>1, DieKeeps DEF RouteWithoutNodes
  <2>5. CASE StopFetching(p)
    BY <2>5, <1>1, LocalMove DEF StopFetching, At, Place, Waiting, registryVars
  <2> QED
    BY <1>5, <2>1, <2>2, <2>3, <2>4, <2>5 DEF FetchThread
<1>6. ASSUME NEW p \in Proc, DatagramArrives(p) \/ ReceiveLoop(p) PROVE Kept
  <2>1. CASE DatagramArrives(p)
    BY <2>1, <1>1, LocalMove DEF DatagramArrives, At, Place, Waiting, registryVars
  <2>2. CASE ReceiveLoop(p)
    BY <2>2, <1>1, LocalMove DEF ReceiveLoop, At, Place, Waiting, registryVars
  <2> QED
    BY <1>6, <2>1, <2>2
<1>7. ASSUME NEW p \in Proc, Registry(p) PROVE Kept
  BY <1>7, HandleKeeps DEF Registry
<1>8. CASE CutRequestFails
  BY <1>8 DEF CutRequestFails, SessionInv, RequestInv
<1>9. CASE UNCHANGED vars
  BY <1>9 DEF vars, registryVars, SessionInv, RequestInv, ThreadInv, RosterInv,
              ListedAs, Named
<1>10. \A kind : ~FaultHappens(kind)
  BY DEF FaultHappens
<1> QED
  BY <1>2, <1>3, <1>4, <1>5, <1>6, <1>7, <1>8, <1>9, <1>10
     DEF Next, RequestFails, RequestTimesOut, RestartRegistry, Kill

LEMMA SessionInvariant ==
    ASSUME UniqueNames, Faults = {} PROVE Spec => []SessionInv
<1>1. Init => SessionInv
  <2> SUFFICES ASSUME Init PROVE SessionInv
    OBVIOUS
  <2>1. TypeOK
    BY InitType
  <2>2. \A p \in Proc : pc[p] = Everywhere("off") /\ pc[p]["main"] = "off"
                        /\ pc[p]["fetch"] = "off"
    BY DEF Init, Everywhere, Thread
  <2>3. registry = {} /\ requests = {}
    BY DEF Init, RegistryInit
  <2> QED
    BY <2>1, <2>2, <2>3
       DEF SessionInv, RequestInv, ThreadInv, RosterInv, ListedAs, Named
<1>2. SessionInv /\ [Next]_vars => SessionInv'
  BY SessionStep, TypeStep DEF SessionInv
<1> QED
  BY <1>1, <1>2, PTL DEF Spec

(***************************************************************************)
(* With names of their own and no fault, the processes that have a prompt  *)
(* are listed once each at their address: no update that the position      *)
(* thread sends before, during or after registration spoils the entry, and *)
(* no other process's request does.                                        *)
(***************************************************************************)
THEOREM SessionsAreListed ==
    ASSUME UniqueNames, Faults = {} PROVE Spec => []SessionIsListed
<1>1. SessionInv => SessionIsListed
  BY DEF SessionInv, RosterInv, SessionIsListed, InSession
<1> QED
  BY <1>1, SessionInvariant, PTL

(***************************************************************************)
(* With names of their own and no fault, a process that has deregistered   *)
(* is not listed again by an update of its position thread.                *)
(***************************************************************************)
THEOREM GoneStayGone ==
    ASSUME UniqueNames, Faults = {} PROVE Spec => []GoneStaysGone
<1>1. SessionInv => GoneStaysGone
  BY DEF SessionInv, RosterInv, GoneStaysGone
<1> QED
  BY <1>1, SessionInvariant, PTL
-----------------------------------------------------------------------------
(* What a process knows of itself, when names are unique and nothing       *)
(* fails.                                                                  *)

(***************************************************************************)
(* A process that has a table knows its own entry, since one was in the    *)
(* list the table was made from; while a list is being added the entry is  *)
(* still in the rest of it.  That holds from bind on: before registration  *)
(* there is no fetch thread.                                               *)
(***************************************************************************)
Informed(p) ==
    /\ pc[p]["fetch"] = "off" => table[p] = 0
    /\ InSession(p) /\ table[p] > 0 => Knows(p, NameOf[p])
    /\ InSession(p) /\ pc[p]["fetch"] = "apply"
         => Knows(p, NameOf[p]) \/ Named(listing[p], NameOf[p]) # {}

KnowledgeInv == \A p \in Proc : Informed(p)

LEMMA InformedKept ==
    ASSUME NEW p \in Proc, Informed(p),
           cache'[p] = cache[p], listing'[p] = listing[p], table'[p] = table[p],
           pc'[p]["fetch"] \in {"off", "apply"} => pc'[p]["fetch"] = pc[p]["fetch"],
           InSession(p)' => InSession(p) \/ pc[p]["fetch"] = "off"
    PROVE  Informed(p)'
<1>1. /\ Knows(p, NameOf[p])' <=> Knows(p, NameOf[p])
      /\ Named(listing[p], NameOf[p])' = Named(listing[p], NameOf[p])
  BY DEF Knows, Named
<1>2. CASE InSession(p)' /\ ~InSession(p)
  BY <1>2 DEF Informed
<1> QED
  BY <1>1, <1>2 DEF Informed

(* An entry of a list has been added: it is known, and so is all that was. *)
LEMMA WithNodeKnows ==
    ASSUME TypeOK, NEW p \in Proc, NEW e \in ListedEntry,
           cache'[p] = WithNode(p, e)
    PROVE  /\ \A name : Knows(p, name) => Knows(p, name)'
           /\ Knows(p, e.name)'
<1> DEFINE c == cache[p]
<1>1. /\ c \in Seq(NodeEntry) /\ Len(c) \in Nat /\ DOMAIN c = 1 .. Len(c)
      /\ \A k \in DOMAIN c : c[k] \in NodeEntry
  BY LenProperties DEF TypeOK
<1>2. CASE NodeExists(p, e)
  <2>1. DOMAIN cache'[p] = DOMAIN c
    BY <1>2 DEF WithNode
  <2>2. \A k \in DOMAIN c : cache'[p][k].name = c[k].name
    BY <1>1, <1>2 DEF WithNode, NodeEntry
  <2> QED
    BY <1>2, <2>1, <2>2 DEF Knows, NodeExists
<1>3. CASE ~NodeExists(p, e)
  <2>1. NodeOf(e) \in NodeEntry /\ NodeOf(e).name = e.name
    BY DEF NodeOf, NodeEntry, ListedEntry
  <2>2. /\ DOMAIN cache'[p] = 1 .. Len(c) + 1
        /\ \A k \in 1 .. Len(c) : cache'[p][k] = c[k]
        /\ cache'[p][Len(c) + 1] = NodeOf(e)
    BY <1>1, <1>3, <2>1, AppendProperties, LenProperties DEF WithNode
  <2>3. \A k \in 1 .. Len(c) : k \in 1 .. Len(c) + 1
    BY <1>1
  <2>4. Len(c) + 1 \in 1 .. Len(c) + 1
    BY <1>1
  <2> QED
    BY <1>1, <2>1, <2>2, <2>3, <2>4 DEF Knows
<1> QED
  BY <1>2, <1>3

LEMMA KnowledgeStep ==
    ASSUME UniqueNames, Faults = {}, SessionInv, KnowledgeInv, [Next]_vars
    PROVE  KnowledgeInv'
<1> USE DEF registryVars, nodeVars
<1>1. /\ pc \in [Proc -> [Thread -> Place]] /\ cache \in [Proc -> Seq(NodeEntry)]
      /\ listing \in [Proc -> SUBSET ListedEntry] /\ table \in [Proc -> Nat]
      /\ Thread = {"main", "position", "fetch", "receiver"}
  BY DEF SessionInv, TypeOK, Thread
<1>2. ASSUME NEW p \in Proc, NEW t \in Thread, NEW place,
             Goto(p, t, place), UNCHANGED <<cache, listing, table>>,
             place \notin {"off", "apply", "input"}
      PROVE  KnowledgeInv'
  <2> SUFFICES ASSUME NEW q \in Proc PROVE Informed(q)'
    BY DEF KnowledgeInv
  <2>1. /\ pc'[q]["fetch"] \in {"off", "apply"} => pc'[q]["fetch"] = pc[q]["fetch"]
        /\ InSession(q)' => InSession(q)
    BY <1>1, <1>2 DEF Goto, InSession
  <2> QED
    BY <1>2, <2>1, InformedKept DEF KnowledgeInv
<1>3. ASSUME NEW p \in Proc, Die(p) PROVE KnowledgeInv'
  <2> SUFFICES ASSUME NEW q \in Proc PROVE Informed(q)'
    BY DEF KnowledgeInv
  <2>1. /\ pc'[q]["fetch"] \in {"off", "apply"} => pc'[q]["fetch"] = pc[q]["fetch"]
        /\ InSession(q)' => InSession(q)
    BY <1>1, <1>3 DEF Die, Everywhere, InSession
  <2> QED
    BY <1>3, <2>1, InformedKept DEF KnowledgeInv, Die
<1>4. ASSUME NEW p \in Proc, Launch(p) \/ Bind(p) PROVE KnowledgeInv'
  <2> SUFFICES ASSUME NEW q \in Proc PROVE Informed(q)'
    BY DEF KnowledgeInv
  <2>1. UNCHANGED <<cache, listing, table>>
    BY <1>4 DEF Launch, Bind
  <2>2. CASE Launch(p)
    <3>1. pc'[q]["fetch"] = pc[q]["fetch"] /\ (InSession(q)' => InSession(q))
      BY <1>1, <2>2 DEF Launch, InSession
    <3> QED
      BY <2>1, <3>1, InformedKept DEF KnowledgeInv
  <2>3. CASE Bind(p)
    <3>1. /\ pc'[q]["fetch"] \in {"off", "apply"} => pc'[q]["fetch"] = pc[q]["fetch"]
          /\ InSession(q)' => InSession(q) \/ q = p
          /\ pc[p]["fetch"] = "off"
      BY <1>1, <2>3 DEF Bind, At, InSession, SessionInv, ThreadInv
    <3> QED
      BY <2>1, <3>1, InformedKept DEF KnowledgeInv
  <2> QED
    BY <1>4, <2>2, <2>3
<1>5. ASSUME NEW p \in Proc, AddNode(p) PROVE KnowledgeInv'
  <2> SUFFICES ASSUME NEW q \in Proc PROVE Informed(q)'
    BY DEF KnowledgeInv
  <2>1. PICK e \in listing[p] :
          /\ cache' = [cache EXCEPT ![p] = WithNode(p, e)]
          /\ listing' = [listing EXCEPT ![p] = @ \ {e}]
    BY <1>5 DEF AddNode
  <2>2. UNCHANGED <<pc, table>> /\ pc[p]["fetch"] = "apply"
    BY <1>5 DEF AddNode, At
  <2>3. CASE q # p
    <3>1. cache'[q] = cache[q] /\ listing'[q] = listing[q]
      BY <1>1, <2>1, <2>3
    <3> QED
      BY <2>2, <3>1, InformedKept DEF KnowledgeInv, InSession
  <2>4. CASE q = p
    <3>1. /\ e \in ListedEntry /\ cache'[p] = WithNode(p, e)
          /\ listing'[p] = listing[p] \ {e}
      BY <1>1, <2>1
    <3>2. /\ Knows(p, NameOf[p]) => Knows(p, NameOf[p])'
          /\ Knows(p, e.name)'
      BY <3>1, WithNodeKnows DEF SessionInv
    <3>3. e.name = NameOf[p] => Knows(p, NameOf[p])'
      BY <3>2 DEF Knows
    <3>4. e.name # NameOf[p] => Named(listing[p], NameOf[p])' = Named(listing[p], NameOf[p])
      BY <3>1 DEF Named
    <3> QED
      BY <2>2, <2>4, <3>2, <3>3, <3>4 DEF KnowledgeInv, Informed, InSession
  <2> QED
    BY <2>3, <2>4
<1>6. ASSUME NEW p \in Proc, UpdateRoutingTable(p) PROVE KnowledgeInv'
  <2> SUFFICES ASSUME NEW q \in Proc PROVE Informed(q)'
    BY DEF KnowledgeInv
  <2>1. /\ pc[p]["fetch"] = "apply" /\ listing[p] = {} /\ UNCHANGED <<cache, listing>>
        /\ pc' = [pc EXCEPT ![p]["fetch"] = "top"]
        /\ \A o \in Proc \ {p} : table'[o] = table[o]
    BY <1>1, <1>6 DEF UpdateRoutingTable, At, Goto
  <2>2. /\ pc'[q]["main"] = pc[q]["main"]
        /\ pc'[q]["fetch"] = IF q = p THEN "top" ELSE pc[q]["fetch"]
    BY <1>1, <2>1
  <2>3. CASE q # p
    BY <2>1, <2>2, <2>3, InformedKept DEF KnowledgeInv, InSession
  <2>4. CASE q = p
    <3>1. Named(listing[p], NameOf[p]) = {}
      BY <2>1 DEF Named
    <3>2. InSession(p) => Knows(p, NameOf[p])
      BY <2>1, <3>1 DEF KnowledgeInv, Informed
    <3>3. Knows(p, NameOf[p])' <=> Knows(p, NameOf[p])
      BY <2>1 DEF Knows
    <3> QED
      BY <2>2, <2>4, <3>2, <3>3 DEF Informed, InSession
  <2> QED
    BY <2>3, <2>4
<1>7. ASSUME NEW p \in Proc, NEW t \in Thread, HandleClient(p, t) PROVE KnowledgeInv'
  <2> SUFFICES ASSUME NEW q \in Proc PROVE Informed(q)'
    BY DEF KnowledgeInv
  <2>1. PICK r \in requests : r.from = p /\ r.thread = t /\ Return(r, registry)
    BY <1>7 DEF HandleClient
  <2>2. UNCHANGED <<cache, table>>
    BY <1>7 DEF HandleClient
  <2>3. r.action \in {"register", "deregister", "update", "list"}
    BY DEF SessionInv, TypeOK, Request
  <2>4. CASE q # p \/ ~r.awaited
    <3>1. pc'[q] = pc[q] /\ listing'[q] = listing[q]
      BY <1>1, <2>1, <2>4 DEF Return, Goto
    <3> QED
      BY <2>2, <3>1, InformedKept DEF KnowledgeInv, InSession
  <2>5. CASE q = p /\ r.awaited
    <3>1. /\ pc' = [pc EXCEPT ![p][t] = After(r.action)]
          /\ listing'[p] = IF r.action = "list" THEN registry ELSE listing[p]
      BY <1>1, <2>1, <2>5 DEF Return, Goto
    <3>2. /\ After(r.action) \notin {"off", "input"}
          /\ After(r.action) = "apply" => r.action = "list"
      BY <2>3 DEF After
    <3>3. /\ pc'[p]["fetch"] = pc[p]["fetch"] \/ pc'[p]["fetch"] = After(r.action)
          /\ InSession(p)' => InSession(p)
      BY <1>1, <3>1, <3>2 DEF InSession
    <3>4. CASE r.action # "list"
      BY <2>2, <2>5, <3>1, <3>2, <3>3, <3>4, InformedKept DEF KnowledgeInv
    <3>5. CASE r.action = "list"
      <4>1. InSession(p) => Named(registry, NameOf[p]) # {}
        BY DEF SessionInv, RosterInv, InSession, ListedAs
      <4>2. Named(listing[p], NameOf[p])' = Named(registry, NameOf[p])
        BY <3>1, <3>5 DEF Named
      <4>3. Knows(p, NameOf[p])' <=> Knows(p, NameOf[p])
        BY <2>2 DEF Knows
      <4> QED
        BY <2>2, <2>5, <3>2, <3>3, <4>1, <4>2, <4>3 DEF KnowledgeInv, Informed
    <3> QED
      BY <3>4, <3>5
  <2> QED
    BY <2>4, <2>5
<1>8. CASE UNCHANGED <<pc, cache, listing, table>>
  BY <1>8, InformedKept DEF KnowledgeInv, InSession
<1>9. \A kind : ~FaultHappens(kind)
  BY DEF FaultHappens
<1>10. ~CutRequestFails
  BY DEF CutRequestFails, SessionInv, RequestInv
<1>11. ASSUME NEW p \in Proc, MainThread(p) \/ User(p) PROVE KnowledgeInv'
  <2>1. CASE ReadX(p) \/ Register(p) \/ Quit(p) \/ JoinThreads(p)
    BY <1>1, <1>2, <2>1 DEF ReadX, Register, Quit, JoinThreads, Send
  <2> QED
    BY <1>3, <1>4, <1>11, <2>1 DEF MainThread, User, BindFails
<1>12. ASSUME NEW p \in Proc, PositionThread(p) PROVE KnowledgeInv'
  BY <1>1, <1>2, <1>12 DEF PositionThread, MoveX, MoveY, StopMoving, Send
<1>13. ASSUME NEW p \in Proc, FetchThread(p) PROVE KnowledgeInv'
  <2>1. CASE FetchNodes(p) \/ StopFetching(p)
    BY <1>1, <1>2, <2>1 DEF FetchNodes, StopFetching, Send
  <2> QED
    BY <1>3, <1>5, <1>6, <1>13, <2>1 DEF FetchThread, RouteWithoutNodes
<1>14. ASSUME NEW p \in Proc, DatagramArrives(p) \/ ReceiveLoop(p) PROVE KnowledgeInv'
  BY <1>1, <1>2, <1>14 DEF DatagramArrives, ReceiveLoop
<1> QED
  BY <1>7, <1>8, <1>9, <1>10, <1>11, <1>12, <1>13, <1>14
     DEF Next, Registry, RequestFails, RequestTimesOut, RestartRegistry, Kill, vars

LEMMA KnowledgeInvariant ==
    ASSUME UniqueNames, Faults = {} PROVE Spec => []KnowledgeInv
<1>1. Init => KnowledgeInv
  BY DEF Init, KnowledgeInv, Informed, InSession, Everywhere, Thread
<1>2. SessionInv /\ KnowledgeInv /\ [Next]_vars => KnowledgeInv'
  BY KnowledgeStep
<1> QED
  BY <1>1, <1>2, SessionInvariant, PTL DEF Spec

(***************************************************************************)
(* With names of their own and no fault, a process that has a table and a  *)
(* prompt routes from its own node: updateRoutingTable finds its name.     *)
(***************************************************************************)
THEOREM OwnNodeIsKnown ==
    ASSUME UniqueNames, Faults = {} PROVE Spec => []SourceIsKnown
<1>1. KnowledgeInv => SourceIsKnown
  BY DEF KnowledgeInv, Informed, SourceIsKnown
<1> QED
  BY <1>1, KnowledgeInvariant, PTL

(* No two processes are started with the same address and port.            *)
UniqueAddresses == \A p, q \in Proc : AddrOf[p] = AddrOf[q] => p = q

(***************************************************************************)
(* With names and addresses of their own and no fault, processes run until *)
(* their user enters q: no port is taken, and no route() is computed from  *)
(* an empty list, for a process lists itself.                              *)
(***************************************************************************)
THEOREM AllRunUntilQuit ==
    ASSUME UniqueNames, UniqueAddresses, Faults = {} PROVE Spec => RunsUntilQuit
<1> DEFINE RunsOn == \A p \in Proc : Running(p) =>
                       Running(p)' \/ pc'[p]["main"] = "deregister"
<1>1. ASSUME SessionInv, KnowledgeInv, [Next]_vars PROVE [RunsOn]_vars
  <2> SUFFICES ASSUME Next, NEW p \in Proc, Running(p)
               PROVE  Running(p)' \/ pc'[p]["main"] = "deregister"
    BY <1>1
  <2> USE DEF registryVars, nodeVars
  <2>1. /\ pc \in [Proc -> [Thread -> Place]]
        /\ Thread = {"main", "position", "fetch", "receiver"}
    BY <1>1 DEF SessionInv, TypeOK, Thread
  <2>2. ASSUME NEW q \in Proc, NEW t \in Thread, NEW place,
               Goto(q, t, place),
               t = "main" => \/ pc[q]["main"] \in {"join", "deregister"}
                             \/ place \in {"payloadY", "register", "bind", "deregister"}
        PROVE  Running(p)' \/ pc'[p]["main"] = "deregister"
    BY <2>1, <2>2 DEF Goto, Running
  <2>3. ASSUME NEW q \in Proc, Launch(q) \/ Bind(q)
        PROVE  Running(p)'
    BY <2>1, <2>3 DEF Launch, Bind, Running
  <2>4. ASSUME NEW q \in Proc, BindFails(q) PROVE FALSE
    BY <2>1, <2>4 DEF BindFails, UniqueAddresses, HoldsSocket, At
  <2>5. ASSUME NEW q \in Proc, RouteWithoutNodes(q) PROVE q # p
    <3> SUFFICES ASSUME q = p PROVE FALSE
      OBVIOUS
    <3>1. pc[p]["fetch"] = "apply" /\ listing[p] = {} /\ cache[p] = <<>>
      BY <2>5 DEF RouteWithoutNodes, At
    <3>2. InSession(p)
      BY <1>1, <3>1 DEF Running, InSession, SessionInv, ThreadInv
    <3>3. ~Knows(p, NameOf[p]) /\ Named(listing[p], NameOf[p]) = {}
      BY <3>1 DEF Knows, Named
    <3> QED
      BY <1>1, <3>1, <3>2, <3>3 DEF KnowledgeInv, Informed
  <2>6. ASSUME NEW q \in Proc, q # p, Die(q) PROVE Running(p)'
    BY <2>1, <2>6 DEF Die, Running
  <2>7. ASSUME NEW q \in Proc, NEW t \in Thread, HandleClient(q, t)
        PROVE  Running(p)' \/ pc'[p]["main"] = "deregister"
    <3>1. PICK r \in requests : r.from = q /\ r.thread = t /\ Return(r, registry)
      BY <2>7 DEF HandleClient
    <3>2. CASE ~r.awaited
      BY <3>1, <3>2 DEF Return, Running
    <3>3. CASE r.awaited
      <4>1. /\ r.action \in {"register", "deregister", "update", "list"}
            /\ r.action \in {"register", "deregister"} <=> t = "main"
            /\ pc[q][t] = r.action
        BY <1>1, <3>1, <3>3 DEF SessionInv, RequestInv, TypeOK, Request
      <4>2. Goto(q, t, After(r.action))
        BY <3>1, <3>3 DEF Return
      <4> QED
        BY <2>2, <4>1, <4>2 DEF After
    <3> QED
      BY <3>2, <3>3
  <2>8. CASE UNCHANGED pc
    BY <2>8 DEF Running
  <2>9. \A kind : ~FaultHappens(kind)
    BY DEF FaultHappens
  <2>10. ~CutRequestFails
    BY <1>1 DEF CutRequestFails, SessionInv, RequestInv
  <2>11. ASSUME NEW q \in Proc, MainThread(q) \/ User(q)
         PROVE  Running(p)' \/ pc'[p]["main"] = "deregister"
    <3>1. CASE ReadX(q) \/ Register(q) \/ Quit(q) \/ JoinThreads(q)
      BY <2>1, <2>2, <3>1 DEF ReadX, Register, Quit, JoinThreads, Send, At
    <3> QED
      BY <2>3, <2>4, <2>11, <3>1 DEF MainThread, User
  <2>12. ASSUME NEW q \in Proc,
                \/ PositionThread(q)
                \/ FetchNodes(q) \/ UpdateRoutingTable(q) \/ StopFetching(q)
                \/ DatagramArrives(q) \/ ReceiveLoop(q)
         PROVE  Running(p)' \/ pc'[p]["main"] = "deregister"
    BY <2>1, <2>2, <2>12
       DEF PositionThread, MoveX, MoveY, StopMoving, FetchNodes, UpdateRoutingTable,
           StopFetching, DatagramArrives, ReceiveLoop, Send
  <2>13. ASSUME NEW q \in Proc, AddNode(q) PROVE Running(p)'
    BY <2>8, <2>13 DEF AddNode, Running
  <2> QED
    BY <2>5, <2>6, <2>7, <2>9, <2>10, <2>11, <2>12, <2>13
       DEF Next, Registry, FetchThread, RouteWithoutNodes, RequestFails,
           RequestTimesOut, RestartRegistry, Kill
<1> QED
  BY <1>1, SessionInvariant, KnowledgeInvariant, PTL DEF Spec, RunsUntilQuit
-----------------------------------------------------------------------------
(* Positions, when names are unique and no request is given up: requests   *)
(* may fail, processes be killed, and the registry forget everything.      *)

ThreadOf(action) == CASE action \in {"register", "deregister"} -> "main"
                      [] action = "update" -> "position"
                      [] action = "list" -> "fetch"

(* A thread has one request at a time, and waits for it unless it is dead. *)
CallInv ==
    /\ \A r \in requests :
         /\ r.name = NameOf[r.from]
         /\ r.thread = ThreadOf(r.action)
         /\ pc[r.from][r.thread] = IF r.awaited THEN r.action ELSE "dead"
    /\ \A r, q \in requests : r.from = q.from /\ r.thread = q.thread => r = q

Unregistered(p) ==
    \/ pc[p]["main"] \in {"off", "payload", "payloadY"}
    \/ \E r \in requests : r.from = p /\ r.action = "register"

(* Nobody knows of a process before its registration is handled, so that   *)
(* its payload, which may be older than an update, is the first position   *)
(* that anybody sees.                                                      *)
UnknownInv ==
    \A p \in Proc : Unregistered(p) =>
        /\ Named(registry, NameOf[p]) = {}
        /\ \A q \in Proc : Named(listing[q], NameOf[p]) = {} /\ ~Knows(q, NameOf[p])

NotBeyond(a, b) == a[1] <= b[1] /\ a[2] <= b[2]

(* What was said of a satellite it has passed; it stands where the update  *)
(* that is on its way says, for its position thread waits for the reply.   *)
PassedInv ==
    \A p \in Proc :
        /\ readX[p] <= coords[p][1]
        /\ \A r \in requests : r.from = p =>
             /\ r.action = "register" => NotBeyond(r.coords, coords[p])
             /\ r.action = "update" => r.coords = coords[p]
        /\ \A e \in Named(registry, NameOf[p]) : NotBeyond(e.coords, coords[p])

OneEach(entries) == \A e, f \in entries : e.name = f.name => e = f

(* A process knows at most what the list it is adding says, and that says  *)
(* at most what the registry does.                                         *)
OrderedInv ==
    /\ OneEach(registry)
    /\ \A q \in Proc :
         /\ OneEach(listing[q])
         /\ \A i \in DOMAIN cache[q] : \A e \in registry \cup listing[q] :
              cache[q][i].name = e.name => NotBeyond(cache[q][i].coords, e.coords)
         /\ \A e \in listing[q], f \in registry :
              e.name = f.name => NotBeyond(e.coords, f.coords)

OrderInv == TypeOK /\ CallInv /\ ThreadInv /\ UnknownInv /\ PassedInv /\ OrderedInv

LEMMA RequestTypes ==
    ASSUME TypeOK, NEW r \in requests
    PROVE  /\ r \in Request /\ r.from \in Proc /\ r.thread \in Thread
           /\ r.action \in Waiting /\ r.coords \in Coordinates
BY DEF TypeOK, Request, Waiting

LEMMA CoordinatesOrder ==
    ASSUME NEW a \in Coordinates, NEW b \in Coordinates
    PROVE  /\ NotBeyond(a, a)
           /\ \A c \in Coordinates : NotBeyond(a, b) /\ NotBeyond(b, c) => NotBeyond(a, c)
BY DirectoryAssumption DEF Coordinates, NotBeyond

(* A thread that does not wait for a reply has no request.                 *)
LEMMA NoRequest ==
    ASSUME TypeOK, CallInv, NEW p \in Proc, NEW t \in Thread,
           pc[p][t] \notin Waiting \cup {"dead"}
    PROVE  \A r \in requests : ~(r.from = p /\ r.thread = t)
BY RequestTypes DEF CallInv

(* What becomes of a request when a process dies, or the registry is       *)
(* started again.                                                          *)
Abandoned(p, r) == IF r.from = p THEN [r EXCEPT !.awaited = FALSE] ELSE r
CutOff(r) == [r EXCEPT !.cut = TRUE]

SameCall(a, b) ==
    /\ a.from = b.from /\ a.thread = b.thread /\ a.action = b.action
    /\ a.name = b.name /\ a.coords = b.coords

LEMMA DieMarks ==
    ASSUME TypeOK, NEW p \in Proc, Die(p)
    PROVE  /\ \A m \in requests' : \E r \in requests : m = Abandoned(p, r)
           /\ \A r \in requests :
                /\ SameCall(Abandoned(p, r), r)
                /\ Abandoned(p, r).awaited = IF r.from = p THEN FALSE ELSE r.awaited
<1>1. \A r \in requests : r \in Request
  BY DEF TypeOK
<1>2. requests' = {Abandoned(p, r) : r \in requests}
  BY DEF Die, Abandoned
<1> QED
  BY <1>1, <1>2 DEF Request, Abandoned, SameCall

LEMMA RestartMarks ==
    ASSUME TypeOK, RestartRegistry
    PROVE  /\ \A m \in requests' : \E r \in requests : m = CutOff(r)
           /\ \A r \in requests : SameCall(CutOff(r), r) /\ CutOff(r).awaited = r.awaited
<1>1. \A r \in requests : r \in Request
  BY DEF TypeOK
<1>2. requests' = {CutOff(r) : r \in requests}
  BY DEF RestartRegistry, CutOff
<1> QED
  BY <1>1, <1>2 DEF Request, CutOff, SameCall
-----------------------------------------------------------------------------
(* The steps of CallInv and ThreadInv.                                     *)

CallsKept == CallInv' /\ ThreadInv'

LEMMA MoveCalls ==
    ASSUME TypeOK, CallInv, ThreadInv, NEW p \in Proc, NEW t \in Thread, NEW place \in Place,
           Goto(p, t, place), UNCHANGED requests,
           pc[p][t] \notin Waiting \cup {"off", "dead"},
           place \notin {"off", "dead"},
           t = "main" => place \in {"payloadY", "exited"} /\ pc[p][t] \in {"payload", "join"},
           pc[p][t] = "join" => place = "exited"
    PROVE  CallsKept
<1>1. /\ pc' = [pc EXCEPT ![p][t] = place]
      /\ pc \in [Proc -> [Thread -> Place]]
      /\ Thread = {"main", "position", "fetch", "receiver"}
  BY DEF Goto, TypeOK, Thread
<1>2. \A r \in requests : ~(r.from = p /\ r.thread = t)
  BY NoRequest
<1>3. \A r \in requests : pc'[r.from][r.thread] = pc[r.from][r.thread]
  BY <1>1, <1>2, RequestTypes
<1>4. CallInv'
  BY <1>3 DEF CallInv
<1>5. pc[p]["main"] \notin {"off", "dead"}
  BY DEF ThreadInv, Everywhere
<1>6. /\ \A q \in Proc \ {p} : pc'[q] = pc[q]
      /\ pc'[p]["main"] = IF t = "main" THEN place ELSE pc[p]["main"]
      /\ pc'[p]["fetch"] = IF t = "fetch" THEN place ELSE pc[p]["fetch"]
  BY <1>1
<1>7. ThreadInv'
  BY <1>5, <1>6 DEF ThreadInv
<1> QED
  BY <1>4, <1>7 DEF CallsKept

LEMMA SendCalls ==
    ASSUME TypeOK, CallInv, ThreadInv, NEW p \in Proc, NEW t \in Thread, NEW action \in Waiting,
           NEW payload, Send(p, t, action, payload), t = ThreadOf(action),
           pc[p][t] \notin Waiting \cup {"off", "dead"},
           action = "register" => pc[p][t] = "payloadY"
    PROVE  /\ CallsKept
           /\ \A m \in requests' : \/ m \in requests
                                   \/ m.from = p /\ m.action = action /\ m.coords = payload
           /\ \A r \in requests : ~(r.from = p /\ r.thread = t)
<1> DEFINE new == [from |-> p, thread |-> t, action |-> action,
                   name |-> NameOf[p], addr |-> AddrOf[p], coords |-> payload,
                   awaited |-> TRUE, cut |-> FALSE, tag |-> 0]
<1>1. /\ pc' = [pc EXCEPT ![p][t] = action]
      /\ pc \in [Proc -> [Thread -> Place]]
      /\ Thread = {"main", "position", "fetch", "receiver"}
      /\ requests' = requests \cup {new}
  BY DEF Send, Goto, TypeOK, Thread
<1>2. \A r \in requests : ~(r.from = p /\ r.thread = t)
  BY NoRequest
<1>3. \A r \in requests : pc'[r.from][r.thread] = pc[r.from][r.thread]
  BY <1>1, <1>2, RequestTypes
<1>4. /\ new.from = p /\ new.thread = t /\ new.action = action /\ new.name = NameOf[p]
      /\ new.coords = payload /\ new.awaited = TRUE
      /\ pc'[p][t] = action
  BY <1>1
<1> HIDE DEF new
<1>5. CallInv'
  <2>1. ASSUME NEW m \in requests'
        PROVE  /\ m.name = NameOf[m.from] /\ m.thread = ThreadOf(m.action)
               /\ pc'[m.from][m.thread] = IF m.awaited THEN m.action ELSE "dead"
    BY <1>1, <1>3, <1>4 DEF CallInv
  <2>2. \A m, q \in requests' : m.from = q.from /\ m.thread = q.thread => m = q
    BY <1>1, <1>2, <1>4 DEF CallInv
  <2> QED
    BY <2>1, <2>2 DEF CallInv
<1>6. pc[p]["main"] \notin {"off", "dead"}
  BY DEF ThreadInv, Everywhere
<1>7. /\ \A q \in Proc \ {p} : pc'[q] = pc[q]
      /\ pc'[p]["main"] = IF t = "main" THEN action ELSE pc[p]["main"]
      /\ pc'[p]["fetch"] = IF t = "fetch" THEN action ELSE pc[p]["fetch"]
  BY <1>1
<1>8. ThreadInv'
  BY <1>6, <1>7 DEF ThreadInv, Waiting
<1> QED
  BY <1>1, <1>2, <1>4, <1>5, <1>8 DEF CallsKept

LEMMA DieCalls ==
    ASSUME TypeOK, CallInv, ThreadInv, NEW p \in Proc, Die(p)
    PROVE  CallsKept
<1>1. /\ pc' = [pc EXCEPT ![p] = Everywhere("dead")]
      /\ pc \in [Proc -> [Thread -> Place]]
  BY DEF Die, TypeOK
<1>2. /\ \A q \in Proc \ {p} : pc'[q] = pc[q]
      /\ pc'[p] = Everywhere("dead")
      /\ \A t \in Thread : pc'[p][t] = "dead"
  BY <1>1 DEF Everywhere
<1>3. CallInv'
  <2>1. ASSUME NEW r \in requests
        PROVE  LET m == Abandoned(p, r)
               IN  /\ m.name = NameOf[m.from] /\ m.thread = ThreadOf(m.action)
                   /\ pc'[m.from][m.thread] = IF m.awaited THEN m.action ELSE "dead"
    <3>1. /\ SameCall(Abandoned(p, r), r)
          /\ Abandoned(p, r).awaited = IF r.from = p THEN FALSE ELSE r.awaited
      BY DieMarks
    <3> QED
      BY <1>2, <3>1, RequestTypes DEF CallInv, SameCall
  <2>2. \A m, q \in requests' : m.from = q.from /\ m.thread = q.thread => m = q
    <3> SUFFICES ASSUME NEW m \in requests', NEW q \in requests',
                        m.from = q.from, m.thread = q.thread
                 PROVE  m = q
      OBVIOUS
    <3>1. PICK a \in requests : m = Abandoned(p, a)
      BY DieMarks
    <3>2. PICK b \in requests : q = Abandoned(p, b)
      BY DieMarks
    <3>3. a.from = b.from /\ a.thread = b.thread
      BY <3>1, <3>2, DieMarks DEF SameCall
    <3> QED
      BY <3>1, <3>2, <3>3 DEF CallInv
  <2>3. \A m \in requests' :
          /\ m.name = NameOf[m.from] /\ m.thread = ThreadOf(m.action)
          /\ pc'[m.from][m.thread] = IF m.awaited THEN m.action ELSE "dead"
    <3> SUFFICES ASSUME NEW m \in requests'
                 PROVE  /\ m.name = NameOf[m.from] /\ m.thread = ThreadOf(m.action)
                        /\ pc'[m.from][m.thread] = IF m.awaited THEN m.action ELSE "dead"
      OBVIOUS
    <3>1. PICK r \in requests : m = Abandoned(p, r)
      BY DieMarks
    <3> QED
      BY <2>1, <3>1
  <2> QED
    BY <2>2, <2>3 DEF CallInv
<1>4. ThreadInv'
  <2>1. "main" \in Thread
    BY DEF Thread
  <2> QED
    BY <1>2, <2>1 DEF ThreadInv
<1> QED
  BY <1>3, <1>4 DEF CallsKept

(* A request is over, and its caller goes on.                              *)
LEMMA EndCalls ==
    ASSUME TypeOK, CallInv, ThreadInv, NEW r \in requests, NEW found,
           requests' = requests \ {r}, Return(r, found)
    PROVE  CallsKept
<1>1. r.from \in Proc /\ r.thread \in Thread /\ r.action \in Waiting
  BY RequestTypes
<1>2. CASE ~r.awaited
  <2>1. UNCHANGED pc
    BY <1>2 DEF Return
  <2> QED
    BY <2>1 DEF CallsKept, CallInv, ThreadInv
<1>3. CASE r.awaited
  <2>1. /\ pc' = [pc EXCEPT ![r.from][r.thread] = After(r.action)]
        /\ pc \in [Proc -> [Thread -> Place]]
        /\ Thread = {"main", "position", "fetch", "receiver"}
    BY <1>3 DEF Return, Goto, TypeOK, Thread
  <2>2. \A q \in requests' : q \in requests /\ ~(q.from = r.from /\ q.thread = r.thread)
    BY DEF CallInv
  <2>3. \A q \in requests' : pc'[q.from][q.thread] = pc[q.from][q.thread]
    BY <1>1, <2>1, <2>2, RequestTypes
  <2>4. CallInv'
    BY <2>2, <2>3 DEF CallInv
  <2>5. pc[r.from][r.thread] = r.action /\ r.thread = ThreadOf(r.action)
    BY <1>3 DEF CallInv
  <2>6. pc[r.from]["main"] \notin {"off", "dead"}
    BY <1>1, <2>5 DEF ThreadInv, Everywhere, Waiting
  <2>7. /\ \A q \in Proc \ {r.from} : pc'[q] = pc[q]
        /\ pc'[r.from]["main"] = IF r.thread = "main" THEN After(r.action) ELSE pc[r.from]["main"]
        /\ pc'[r.from]["fetch"] = IF r.thread = "fetch" THEN After(r.action) ELSE pc[r.from]["fetch"]
    BY <1>1, <2>1
  <2>8. ThreadInv'
    <3>1. CASE r.thread = "main"
      <4>1. \/ pc[r.from]["main"] = "register" /\ pc'[r.from]["main"] = "bind"
            \/ pc'[r.from]["main"] = "join"
        BY <1>1, <2>5, <2>7, <3>1 DEF ThreadOf, After, Waiting
      <4> QED
        BY <2>7, <3>1, <4>1 DEF ThreadInv
    <3>2. CASE r.thread # "main"
      <4>1. r.thread = "fetch" => pc[r.from]["fetch"] # "off"
        BY <1>1, <2>5 DEF Waiting
      <4> QED
        BY <2>6, <2>7, <3>2, <4>1 DEF ThreadInv
    <3> QED
      BY <3>1, <3>2
  <2> QED
    BY <2>4, <2>8 DEF CallsKept
<1> QED
  BY <1>2, <1>3

LEMMA RestartCalls ==
    ASSUME TypeOK, CallInv, ThreadInv, RestartRegistry
    PROVE  CallsKept
<1>1. UNCHANGED pc
  BY DEF RestartRegistry
<1>2. CallInv'
  <2>1. \A m \in requests' :
          /\ m.name = NameOf[m.from] /\ m.thread = ThreadOf(m.action)
          /\ pc[m.from][m.thread] = IF m.awaited THEN m.action ELSE "dead"
    <3> SUFFICES ASSUME NEW m \in requests'
                 PROVE  /\ m.name = NameOf[m.from] /\ m.thread = ThreadOf(m.action)
                        /\ pc[m.from][m.thread] = IF m.awaited THEN m.action ELSE "dead"
      OBVIOUS
    <3>1. PICK r \in requests : m = CutOff(r)
      BY RestartMarks
    <3>2. SameCall(m, r) /\ m.awaited = r.awaited
      BY <3>1, RestartMarks
    <3> QED
      BY <3>2 DEF CallInv, SameCall
  <2>2. \A m, q \in requests' : m.from = q.from /\ m.thread = q.thread => m = q
    <3> SUFFICES ASSUME NEW m \in requests', NEW q \in requests',
                        m.from = q.from, m.thread = q.thread
                 PROVE  m = q
      OBVIOUS
    <3>1. PICK a \in requests : m = CutOff(a)
      BY RestartMarks
    <3>2. PICK b \in requests : q = CutOff(b)
      BY RestartMarks
    <3>3. a.from = b.from /\ a.thread = b.thread
      BY <3>1, <3>2, RestartMarks DEF SameCall
    <3> QED
      BY <3>1, <3>2, <3>3 DEF CallInv
  <2> QED
    BY <1>1, <2>1, <2>2 DEF CallInv
<1> QED
  BY <1>1, <1>2 DEF CallsKept, ThreadInv

LEMMA StartCalls ==
    ASSUME TypeOK, CallInv, ThreadInv, NEW p \in Proc, Launch(p) \/ Bind(p)
    PROVE  CallsKept
<1>1. /\ pc \in [Proc -> [Thread -> Place]]
      /\ Thread = {"main", "position", "fetch", "receiver"}
      /\ requests' = requests
  BY DEF TypeOK, Thread, Launch, Bind, registryVars
<1>2. /\ \A q \in Proc \ {p} : pc'[q] = pc[q]
      /\ \/ /\ pc[p] = Everywhere("off")
            /\ pc'[p]["main"] = "payload" /\ pc'[p]["fetch"] = "off"
         \/ /\ pc[p]["main"] = "bind" /\ pc'[p]["main"] = "input"
            /\ pc[p]["fetch"] = "off" /\ pc'[p]["position"] = pc[p]["position"]
  <2>1. CASE Launch(p)
    <3>1. pc[p] = Everywhere("off")
      BY <2>1 DEF Launch, At, ThreadInv
    <3>2. pc[p]["fetch"] = "off"
      BY <1>1, <3>1 DEF Everywhere
    <3> QED
      BY <1>1, <2>1, <3>1, <3>2 DEF Launch
  <2>2. CASE Bind(p)
    BY <1>1, <2>2 DEF Bind, At, ThreadInv
  <2> QED
    BY <2>1, <2>2
<1>3. \A r \in requests : pc'[r.from][r.thread] = pc[r.from][r.thread]
  <2> SUFFICES ASSUME NEW r \in requests, r.from = p
               PROVE  pc'[p][r.thread] = pc[p][r.thread]
    BY <1>2, RequestTypes
  <2>1. r.thread \in Thread /\ r.action \in Waiting
    BY RequestTypes
  <2>2. pc[p][r.thread] \in Waiting \cup {"dead"} /\ r.thread = ThreadOf(r.action)
    BY <2>1 DEF CallInv
  <2>3. pc[p] # Everywhere("off")
    BY <1>1, <2>1, <2>2 DEF Everywhere, Waiting
  <2>4. r.thread \notin {"main", "fetch", "receiver"}
    BY <1>2, <2>1, <2>2, <2>3 DEF Waiting, ThreadOf
  <2> QED
    BY <1>1, <1>2, <2>1, <2>3, <2>4
<1>4. CallInv'
  BY <1>1, <1>3 DEF CallInv
<1>5. ThreadInv'
  BY <1>2 DEF ThreadInv
<1> QED
  BY <1>4, <1>5 DEF CallsKept

LEMMA CallStep ==
    ASSUME "timeout" \notin Faults, TypeOK, CallInv, ThreadInv, [Next]_vars
    PROVE  CallsKept
<1> USE DEF registryVars
<1>1. pc \in [Proc -> [Thread -> Place]] /\ Thread = {"main", "position", "fetch", "receiver"}
  BY DEF TypeOK, Thread
<1>2. ASSUME NEW p \in Proc, User(p) \/ MainThread(p) PROVE CallsKept
  <2>1. CASE ReadX(p)
    BY <1>1, <2>1, MoveCalls DEF ReadX, At, Place, Waiting
  <2>2. CASE JoinThreads(p)
    BY <1>1, <2>2, MoveCalls DEF JoinThreads, At, Place, Waiting
  <2>3. CASE Quit(p)
    BY <1>1, <2>3, SendCalls DEF Quit, At, Waiting, ThreadOf
  <2>4. CASE Register(p)
    BY <1>1, <2>4, SendCalls DEF Register, At, Waiting, ThreadOf
  <2> QED
    BY <1>2, <2>1, <2>2, <2>3, <2>4, StartCalls, DieCalls DEF User, MainThread, BindFails
<1>3. ASSUME NEW p \in Proc, PositionThread(p) PROVE CallsKept
  <2>1. CASE MoveX(p)
    BY <1>1, <2>1, MoveCalls DEF MoveX, At, Place, Waiting
  <2>2. CASE MoveY(p)
    BY <1>1, <2>2, SendCalls DEF MoveY, At, Waiting, ThreadOf
  <2>3. CASE StopMoving(p)
    BY <1>1, <2>3, MoveCalls DEF StopMoving, At, Place, Waiting
  <2> QED
    BY <1>3, <2>1, <2>2, <2>3 DEF PositionThread
<1>4. ASSUME NEW p \in Proc, FetchThread(p) PROVE CallsKept
  <2>1. CASE FetchNodes(p)
    BY <1>1, <2>1, SendCalls DEF FetchNodes, At, Waiting, ThreadOf
  <2>2. CASE AddNode(p)
    BY <2>2 DEF AddNode, CallsKept, CallInv, ThreadInv
  <2>3. CASE UpdateRoutingTable(p)
    BY <1>1, <2>3, MoveCalls DEF UpdateRoutingTable, At, Place, Waiting
  <2>4. CASE StopFetching(p)
    BY <1>1, <2>4, MoveCalls DEF StopFetching, At, Place, Waiting
  <2> QED
    BY <1>4, <2>1, <2>2, <2>3, <2>4, DieCalls DEF FetchThread, RouteWithoutNodes
<1>5. ASSUME NEW p \in Proc, DatagramArrives(p) \/ ReceiveLoop(p) PROVE CallsKept
  BY <1>1, <1>5, MoveCalls DEF DatagramArrives, ReceiveLoop, At, Place, Waiting
<1>6. ASSUME NEW p \in Proc, Registry(p) PROVE CallsKept
  BY <1>6, EndCalls DEF Registry, HandleClient
<1>7. CASE RequestFails \/ CutRequestFails
  BY <1>7, EndCalls DEF RequestFails, CutRequestFails, EndWithoutEffect
<1>8. ~RequestTimesOut
  BY DEF RequestTimesOut, FaultHappens
<1>9. ASSUME NEW p \in Proc, Kill(p) PROVE CallsKept
  BY <1>9, DieCalls DEF Kill
<1>10. CASE UNCHANGED vars
  BY <1>10 DEF vars, CallsKept, CallInv, ThreadInv
<1> QED
  BY <1>2, <1>3, <1>4, <1>5, <1>6, <1>7, <1>8, <1>9, <1>10, RestartCalls DEF Next
-----------------------------------------------------------------------------
(* The steps of UnknownInv, PassedInv and OrderedInv.                      *)

(* What can become of the requests in a step: one is sent, or some end, or *)
(* some are marked.                                                        *)
Sent(p, action, payload) ==
    \A m \in requests' : \/ m \in requests
                         \/ m.from = p /\ m.action = action /\ m.coords = payload

LEMMA RequestsBefore ==
    ASSUME "timeout" \notin Faults, TypeOK, CallInv, ThreadInv, [Next]_vars
    PROVE  \/ \E p \in Proc :
                \/ Register(p) /\ Sent(p, "register", <<readX[p], coords[p][2]>>)
                \/ MoveY(p) /\ Sent(p, "update", coords'[p])
                \/ Quit(p) /\ Sent(p, "deregister", coords[p])
                \/ FetchNodes(p) /\ Sent(p, "list", <<0, 0>>)
           \/ \A m \in requests' : \E r \in requests : SameCall(m, r)
<1> DEFINE Kept == \A m \in requests' : \E r \in requests : SameCall(m, r)
<1>1. pc \in [Proc -> [Thread -> Place]] /\ Thread = {"main", "position", "fetch", "receiver"}
  BY DEF TypeOK, Thread
<1>2. requests' \subseteq requests => Kept
  BY DEF SameCall
<1>3. ASSUME NEW p \in Proc, Die(p) PROVE Kept
  <2> SUFFICES ASSUME NEW m \in requests' PROVE \E r \in requests : SameCall(m, r)
    OBVIOUS
  <2>1. PICK r \in requests : m = Abandoned(p, r)
    BY <1>3, DieMarks
  <2> QED
    BY <1>3, <2>1, DieMarks
<1>4. ASSUME RestartRegistry PROVE Kept
  <2> SUFFICES ASSUME NEW m \in requests' PROVE \E r \in requests : SameCall(m, r)
    OBVIOUS
  <2>1. PICK r \in requests : m = CutOff(r)
    BY <1>4, RestartMarks
  <2> QED
    BY <1>4, <2>1, RestartMarks
<1> HIDE DEF Kept
<1>5. ASSUME NEW p \in Proc, Register(p)
      PROVE  Sent(p, "register", <<readX[p], coords[p][2]>>)
  BY <1>1, <1>5, SendCalls DEF Register, At, Waiting, ThreadOf, Sent
<1>6. ASSUME NEW p \in Proc, MoveY(p) PROVE Sent(p, "update", coords'[p])
  BY <1>1, <1>6, SendCalls DEF MoveY, At, Waiting, ThreadOf, Sent
<1>7. ASSUME NEW p \in Proc, Quit(p) PROVE Sent(p, "deregister", coords[p])
  BY <1>1, <1>7, SendCalls DEF Quit, At, Waiting, ThreadOf, Sent
<1>8. ASSUME NEW p \in Proc, FetchNodes(p) PROVE Sent(p, "list", <<0, 0>>)
  BY <1>1, <1>8, SendCalls DEF FetchNodes, At, Waiting, ThreadOf, Sent
<1>9. ASSUME NEW p \in Proc,
             \/ Launch(p) \/ ReadX(p) \/ Bind(p) \/ JoinThreads(p)
             \/ MoveX(p) \/ StopMoving(p)
             \/ AddNode(p) \/ UpdateRoutingTable(p) \/ StopFetching(p)
             \/ DatagramArrives(p) \/ ReceiveLoop(p)
      PROVE  Kept
  BY <1>2, <1>9 DEF Launch, ReadX, Bind, JoinThreads, MoveX, StopMoving, AddNode,
     UpdateRoutingTable, StopFetching, DatagramArrives, ReceiveLoop, registryVars
<1>10. ASSUME NEW r \in requests, requests' = requests \ {r} PROVE Kept
  BY <1>2, <1>10
<1>11. ASSUME RequestFails \/ CutRequestFails PROVE Kept
  BY <1>10, <1>11 DEF RequestFails, CutRequestFails, EndWithoutEffect
<1>12. ASSUME NEW p \in Proc, Registry(p) PROVE Kept
  BY <1>10, <1>12 DEF Registry, HandleClient
<1>13. ~RequestTimesOut
  BY DEF RequestTimesOut, FaultHappens
<1>14. ASSUME NEW p \in Proc, BindFails(p) \/ RouteWithoutNodes(p) \/ Kill(p) PROVE Kept
  BY <1>3, <1>14 DEF BindFails, RouteWithoutNodes, Kill
<1>15. ASSUME UNCHANGED vars PROVE Kept
  BY <1>2, <1>15 DEF vars, registryVars
<1>16. ASSUME NEW p \in Proc, User(p) \/ MainThread(p) \/ PositionThread(p) \/ FetchThread(p)
       PROVE  \/ Kept
              \/ Register(p) \/ MoveY(p) \/ Quit(p) \/ FetchNodes(p)
  BY <1>9, <1>14, <1>16 DEF User, MainThread, PositionThread, FetchThread
<1>17. Next => \/ Kept
               \/ \E p \in Proc : Register(p) \/ MoveY(p) \/ Quit(p) \/ FetchNodes(p)
  BY <1>4, <1>9, <1>11, <1>12, <1>13, <1>14, <1>16 DEF Next
<1>18. Kept => \A m \in requests' : \E r \in requests : SameCall(m, r)
  BY DEF Kept
<1> QED
  BY <1>5, <1>6, <1>7, <1>8, <1>15, <1>17, <1>18

(* A process is registered once in its life.                               *)
LEMMA UnregisteredBefore ==
    ASSUME "timeout" \notin Faults, TypeOK, CallInv, ThreadInv, [Next]_vars,
           NEW p \in Proc, Unregistered(p)'
    PROVE  Unregistered(p)
<1> USE DEF registryVars
<1> DEFINE Early == {"off", "payload", "payloadY"}
<1>1. pc \in [Proc -> [Thread -> Place]] /\ Thread = {"main", "position", "fetch", "receiver"}
  BY DEF TypeOK, Thread
<1>2. ASSUME NEW m \in requests', m.from = p, m.action = "register"
      PROVE  Unregistered(p)
  <2>1. CASE \E r \in requests : SameCall(m, r)
    BY <1>2, <2>1 DEF SameCall, Unregistered
  <2>2. ASSUME NEW q \in Proc, Register(q), Sent(q, "register", <<readX[q], coords[q][2]>>)
        PROVE  Unregistered(p)
    BY <1>2, <2>2 DEF Sent, Register, At, Unregistered
  <2>3. ASSUME NEW q \in Proc, NEW action, NEW payload, action # "register",
               Sent(q, action, payload)
        PROVE  Unregistered(p)
    BY <1>2, <2>3 DEF Sent, Unregistered
  <2> QED
    BY <2>1, <2>2, <2>3, RequestsBefore
<1>3. ASSUME pc'[p]["main"] \in Early
      PROVE  pc[p]["main"] \in Early
  <2>1. ASSUME NEW q \in Proc, NEW t \in Thread, NEW place, Goto(q, t, place),
               place \notin Early \/ pc[q][t] \in Early \/ t # "main"
        PROVE  pc[p]["main"] \in Early
    BY <1>1, <1>3, <2>1 DEF Goto
  <2>2. ASSUME NEW q \in Proc, Die(q) PROVE pc[p]["main"] \in Early
    BY <1>1, <1>3, <2>2 DEF Die, Everywhere
  <2>3. ASSUME NEW r \in requests, NEW found, Return(r, found)
        PROVE  pc[p]["main"] \in Early
    <3>1. CASE r.awaited
      <4>1. After(r.action) \notin Early
        BY RequestTypes DEF After, Waiting
      <4> QED
        BY <2>1, <2>3, <3>1, <4>1, RequestTypes DEF Return
    <3>2. CASE ~r.awaited
      BY <1>3, <2>3, <3>2 DEF Return
    <3> QED
      BY <3>1, <3>2
  <2>4. ASSUME NEW q \in Proc, Launch(q) \/ Bind(q) PROVE pc[p]["main"] \in Early
    BY <1>1, <1>3, <2>4 DEF Launch, Bind, At
  <2>5. CASE UNCHANGED pc
    BY <1>3, <2>5
  <2>6. ASSUME NEW q \in Proc, User(q) \/ MainThread(q) PROVE pc[p]["main"] \in Early
    <3>1. CASE ReadX(q) \/ Register(q) \/ Quit(q) \/ JoinThreads(q)
      BY <1>1, <2>1, <3>1 DEF ReadX, Register, Quit, JoinThreads, Send, At
    <3> QED
      BY <2>2, <2>4, <2>6, <3>1 DEF User, MainThread, BindFails
  <2>7. ASSUME NEW q \in Proc, PositionThread(q) PROVE pc[p]["main"] \in Early
    BY <1>1, <2>1, <2>7 DEF PositionThread, MoveX, MoveY, StopMoving, Send
  <2>8. ASSUME NEW q \in Proc, FetchThread(q) PROVE pc[p]["main"] \in Early
    <3>1. CASE FetchNodes(q) \/ UpdateRoutingTable(q) \/ StopFetching(q)
      BY <1>1, <2>1, <3>1 DEF FetchNodes, UpdateRoutingTable, StopFetching, Send
    <3> QED
      BY <2>2, <2>5, <2>8, <3>1 DEF FetchThread, AddNode, RouteWithoutNodes
  <2>9. ASSUME NEW q \in Proc, DatagramArrives(q) \/ ReceiveLoop(q)
        PROVE  pc[p]["main"] \in Early
    BY <1>1, <2>1, <2>9 DEF DatagramArrives, ReceiveLoop
  <2>10. ASSUME NEW q \in Proc, Registry(q) PROVE pc[p]["main"] \in Early
    BY <2>3, <2>10 DEF Registry, HandleClient
  <2>11. CASE RequestFails \/ CutRequestFails
    BY <2>3, <2>11 DEF RequestFails, CutRequestFails, EndWithoutEffect
  <2>12. ~RequestTimesOut
    BY DEF RequestTimesOut, FaultHappens
  <2>13. CASE RestartRegistry
    BY <2>5, <2>13 DEF RestartRegistry
  <2>14. ASSUME NEW q \in Proc, Kill(q) PROVE pc[p]["main"] \in Early
    BY <2>2, <2>14 DEF Kill
  <2>15. CASE UNCHANGED vars
    BY <2>5, <2>15 DEF vars
  <2> QED
    BY <2>6, <2>7, <2>8, <2>9, <2>10, <2>11, <2>12, <2>13, <2>14, <2>15 DEF Next
<1> QED
  BY <1>2, <1>3 DEF Unregistered

(* What AddNode leaves of the entries of a list: each stands as it did, or *)
(* says of e's name what e does.                                           *)
LEMMA WithNodeEntries ==
    ASSUME TypeOK, NEW p \in Proc, NEW e \in ListedEntry
    PROVE  /\ DOMAIN cache[p] \subseteq DOMAIN WithNode(p, e)
           /\ \A i \in DOMAIN WithNode(p, e) :
                \/ /\ WithNode(p, e)[i].name = e.name
                   /\ WithNode(p, e)[i].coords = e.coords
                \/ i \in DOMAIN cache[p] /\ WithNode(p, e)[i] = cache[p][i]
           /\ \A i \in DOMAIN cache[p] : WithNode(p, e)[i].name = cache[p][i].name
<1> DEFINE c == cache[p]
           d == WithNode(p, e)
<1>1. /\ c \in Seq(NodeEntry) /\ Len(c) \in Nat /\ DOMAIN c = 1 .. Len(c)
      /\ \A k \in DOMAIN c : c[k] \in NodeEntry
  BY LenProperties DEF TypeOK
<1>2. CASE NodeExists(p, e)
  <2>1. DOMAIN d = DOMAIN c
    BY <1>2 DEF WithNode
  <2>2. ASSUME NEW k \in DOMAIN c
        PROVE  /\ d[k].name = c[k].name
               /\ \/ d[k].name = e.name /\ d[k].coords = e.coords
                  \/ d[k] = c[k]
    <3>1. CASE IsFirstNamed(p, k, e.name)
      <4>1. d[k] = [c[k] EXCEPT !.coords = e.coords]
        BY <1>2, <3>1 DEF WithNode
      <4>2. c[k] \in NodeEntry /\ c[k].name = e.name
        BY <1>1, <3>1 DEF IsFirstNamed
      <4> QED
        BY <4>1, <4>2 DEF NodeEntry
    <3>2. CASE ~IsFirstNamed(p, k, e.name)
      BY <1>2, <3>2 DEF WithNode
    <3> QED
      BY <3>1, <3>2
  <2> QED
    BY <2>1, <2>2
<1>3. CASE ~NodeExists(p, e)
  <2>1. /\ NodeOf(e) \in NodeEntry
        /\ NodeOf(e).name = e.name /\ NodeOf(e).coords = e.coords
    BY DEF NodeOf, NodeEntry, ListedEntry
  <2>2. /\ DOMAIN d = 1 .. Len(c) + 1
        /\ \A k \in 1 .. Len(c) : d[k] = c[k]
        /\ d[Len(c) + 1] = NodeOf(e)
    BY <1>1, <1>3, <2>1, AppendProperties, LenProperties DEF WithNode
  <2>3. /\ 1 .. Len(c) \subseteq 1 .. Len(c) + 1
        /\ \A k \in 1 .. Len(c) + 1 : k \in 1 .. Len(c) \/ k = Len(c) + 1
    BY <1>1
  <2> QED
    BY <1>1, <2>1, <2>2, <2>3
<1> QED
  BY <1>2, <1>3

(* What a step does to the registry's list and to what is known of it: no  *)
(* more is listed, or a request adds or changes an entry, or a process     *)
(* takes over an entry of the list it has.                                 *)
Fewer ==
    /\ registry' \subseteq registry
    /\ UNCHANGED cache
    /\ \A q \in Proc : listing'[q] \in {listing[q], {}, registry}

Handles(r) ==
    /\ requests' = requests \ {r}
    /\ Return(r, registry)
    /\ UNCHANGED <<coords, readX, cache>>

LEMMA ListSteps ==
    ASSUME "timeout" \notin Faults, TypeOK, [Next]_vars
    PROVE  \/ Fewer
           \/ \E r \in requests :
                /\ Handles(r) /\ UNCHANGED listing
                /\ \/ r.action = "register" /\ RegisterNode(r)
                   \/ r.action = "update" /\ UpdateNode(r)
           \/ \E p \in Proc : AddNode(p)
<1> USE DEF registryVars, nodeVars
<1>1. UNCHANGED <<registry, listing, cache>> => Fewer
  BY DEF Fewer
<1>2. listing \in [Proc -> SUBSET ListedEntry]
  BY DEF TypeOK
<1>3. ASSUME NEW r \in requests, NEW found, found \in {{}, registry}, Return(r, found)
      PROVE  /\ \A q \in Proc : listing'[q] \in {listing[q], {}, registry}
             /\ r.action # "list" => UNCHANGED listing
  BY <1>2, <1>3 DEF Return
<1>4. ASSUME NEW r \in requests, EndWithoutEffect(r) PROVE Fewer
  BY <1>3, <1>4 DEF EndWithoutEffect, Fewer
<1>5. ASSUME NEW p \in Proc, Registry(p)
      PROVE  \/ Fewer
             \/ \E r \in requests :
                  /\ Handles(r) /\ UNCHANGED listing
                  /\ \/ r.action = "register" /\ RegisterNode(r)
                     \/ r.action = "update" /\ UpdateNode(r)
  <2>1. PICK r \in requests : ProcessRequest(r) /\ Handles(r)
    BY <1>5 DEF Registry, HandleClient, Handles
  <2>2. CASE \/ r.action = "register" /\ RegisterNode(r)
             \/ r.action = "update" /\ UpdateNode(r)
    BY <1>3, <2>1, <2>2 DEF Handles
  <2>3. CASE r.action = "deregister" /\ DeregisterNode(r)
    BY <1>3, <2>1, <2>3 DEF Handles, DeregisterNode, Named, Fewer
  <2>4. CASE UNCHANGED registry
    BY <1>3, <2>1, <2>4 DEF Handles, Fewer
  <2>5. \/ r.action = "register" /\ RegisterNode(r)
        \/ r.action = "update" /\ UpdateNode(r)
        \/ r.action = "deregister" /\ DeregisterNode(r)
        \/ UNCHANGED registry
    BY <2>1 DEF ProcessRequest
  <2> QED
    BY <2>2, <2>3, <2>4, <2>5
<1>6. ASSUME NEW p \in Proc, User(p) \/ MainThread(p) \/ PositionThread(p) PROVE Fewer
  BY <1>1, <1>6 DEF User, MainThread, PositionThread, Launch, Quit, ReadX, Register, Bind,
     BindFails, JoinThreads, MoveX, MoveY, StopMoving, Send, Die
<1>7. ASSUME NEW p \in Proc, FetchThread(p) PROVE Fewer \/ AddNode(p)
  BY <1>1, <1>7 DEF FetchThread, FetchNodes, UpdateRoutingTable, RouteWithoutNodes,
     StopFetching, Send, Die
<1>8. ASSUME NEW p \in Proc, DatagramArrives(p) \/ ReceiveLoop(p) \/ Kill(p) PROVE Fewer
  BY <1>1, <1>8 DEF DatagramArrives, ReceiveLoop, Kill, Die
<1>9. ASSUME RequestFails \/ CutRequestFails PROVE Fewer
  BY <1>4, <1>9 DEF RequestFails, CutRequestFails
<1>10. ~RequestTimesOut
  BY DEF RequestTimesOut, FaultHappens
<1>11. ASSUME RestartRegistry PROVE Fewer
  BY <1>11 DEF RestartRegistry, Fewer
<1>12. ASSUME UNCHANGED vars PROVE Fewer
  BY <1>1, <1>12 DEF vars
<1> QED
  BY <1>5, <1>6, <1>7, <1>8, <1>9, <1>10, <1>11, <1>12 DEF Next

(* Satellites move on, and only while they do not say where they are.      *)
LEMMA MoveOn ==
    ASSUME "timeout" \notin Faults, TypeOK, [Next]_vars, NEW p \in Proc
    PROVE  /\ NotBeyond(coords[p], coords'[p])
           /\ coords'[p] = coords[p] \/ pc[p]["position"] \in {"top", "moveY"}
           /\ readX'[p] = readX[p] \/ readX'[p] = coords[p][1]
<1> USE DEF registryVars, nodeVars
<1>1. /\ coords[p] \in (0 .. MaxMoves) \X (0 .. MaxMoves)
      /\ coords \in [Proc -> Coordinates] /\ readX \in [Proc -> 0 .. MaxMoves]
      /\ MaxMoves \in Nat
  BY DirectoryAssumption DEF TypeOK, Coordinates
<1>2. coords[p][1] \in Nat /\ coords[p][2] \in Nat
  BY <1>1
<1>3. ASSUME NEW k \in Nat PROVE k <= NextMove(k)
  BY <1>3, DirectoryAssumption DEF NextMove
<1>4. UNCHANGED coords => NotBeyond(coords[p], coords'[p])
  BY <1>2 DEF NotBeyond
<1>5. ASSUME NEW q \in Proc, MoveX(q)
      PROVE  /\ NotBeyond(coords[p], coords'[p]) /\ UNCHANGED readX
             /\ coords'[p] = coords[p] \/ pc[p]["position"] \in {"top", "moveY"}
  <2>1. CASE q = p
    <3>1. coords'[p][1] = NextMove(coords[p][1]) /\ coords'[p][2] = coords[p][2]
      BY <1>1, <1>5, <2>1 DEF MoveX
    <3> QED
      BY <1>2, <1>3, <1>5, <2>1, <3>1 DEF MoveX, At, NotBeyond
  <2>2. CASE q # p
    <3>1. coords'[p] = coords[p]
      BY <1>1, <1>5, <2>2 DEF MoveX
    <3> QED
      BY <1>2, <1>5, <3>1 DEF MoveX, NotBeyond
  <2> QED
    BY <2>1, <2>2
<1>6. ASSUME NEW q \in Proc, MoveY(q)
      PROVE  /\ NotBeyond(coords[p], coords'[p]) /\ UNCHANGED readX
             /\ coords'[p] = coords[p] \/ pc[p]["position"] \in {"top", "moveY"}
  <2>1. CASE q = p
    <3>1. coords'[p][1] = coords[p][1] /\ coords'[p][2] = NextMove(coords[p][2])
      BY <1>1, <1>6, <2>1 DEF MoveY
    <3> QED
      BY <1>2, <1>3, <1>6, <2>1, <3>1 DEF MoveY, At, NotBeyond
  <2>2. CASE q # p
    <3>1. coords'[p] = coords[p]
      BY <1>1, <1>6, <2>2 DEF MoveY
    <3> QED
      BY <1>2, <1>6, <3>1 DEF MoveY, NotBeyond
  <2> QED
    BY <2>1, <2>2
<1>7. ASSUME NEW q \in Proc, ReadX(q)
      PROVE  UNCHANGED coords /\ (readX'[p] = readX[p] \/ readX'[p] = coords[p][1])
  BY <1>1, <1>7 DEF ReadX
<1>8. \/ UNCHANGED <<coords, readX>>
      \/ \E q \in Proc : MoveX(q) \/ MoveY(q) \/ ReadX(q)
  BY DEF Next, User, MainThread, PositionThread, FetchThread, Registry,
         Launch, Quit, Register, Bind, BindFails, JoinThreads,
         StopMoving, FetchNodes, AddNode, UpdateRoutingTable, RouteWithoutNodes,
         StopFetching, DatagramArrives, ReceiveLoop, HandleClient, Kill,
         RequestFails, CutRequestFails, EndWithoutEffect, RequestTimesOut,
         RestartRegistry, Die, vars
<1> QED
  BY <1>4, <1>5, <1>6, <1>7, <1>8

(* An update says of the entries of one name what the request does.        *)
LEMMA UpdateEntries ==
    ASSUME TypeOK, NEW r \in requests, UpdateNode(r)
    PROVE  \A f \in registry' : \E e \in registry :
             /\ f.name = e.name
             /\ \/ f = e
                \/ e.name = r.name /\ f.coords = r.coords
<1> DEFINE updated(e) == IF IsFirstOf(e, Named(registry, r.name))
                         THEN EntryOf(r, e.at) ELSE e
<1>1. registry' = {updated(e) : e \in registry}
  BY DEF UpdateNode
<1>2. ASSUME NEW e \in registry
      PROVE  /\ updated(e).name = e.name
             /\ updated(e) = e \/ (e.name = r.name /\ updated(e).coords = r.coords)
  BY DEF IsFirstOf, Named, EntryOf
<1> HIDE DEF updated
<1> QED
  BY <1>1, <1>2

LEMMA UpdateKeepsOneEach ==
    ASSUME TypeOK, NEW r \in requests, UpdateNode(r), OneEach(registry)
    PROVE  OneEach(registry')
<1> DEFINE updated(e) == IF IsFirstOf(e, Named(registry, r.name))
                         THEN EntryOf(r, e.at) ELSE e
<1>1. registry' = {updated(e) : e \in registry}
  BY DEF UpdateNode
<1>2. ASSUME NEW e \in registry PROVE updated(e).name = e.name
  BY DEF IsFirstOf, Named, EntryOf
<1> HIDE DEF updated
<1> QED
  BY <1>1, <1>2 DEF OneEach

(* A registration is handled once, and nobody knows of the process yet.    *)
LEMMA RegistrationIsOver ==
    ASSUME TypeOK, CallInv, NEW r \in requests, r.action = "register", Handles(r)
    PROVE  Unregistered(r.from) /\ ~Unregistered(r.from)'
<1>1. r.from \in Proc /\ "main" \in Thread /\ pc \in [Proc -> [Thread -> Place]]
  BY RequestTypes DEF Thread, TypeOK
<1>2. r.thread = "main" /\ pc[r.from]["main"] = IF r.awaited THEN "register" ELSE "dead"
  BY DEF CallInv, ThreadOf
<1>3. pc'[r.from]["main"] = IF r.awaited THEN "bind" ELSE "dead"
  BY <1>1, <1>2 DEF Handles, Return, Goto, After
<1>4. \A m \in requests' : ~(m.from = r.from /\ m.action = "register")
  BY <1>2 DEF CallInv, ThreadOf, Handles
<1> QED
  BY <1>3, <1>4 DEF Unregistered

LEMMA UnknownStep ==
    ASSUME UniqueNames, "timeout" \notin Faults, OrderInv, [Next]_vars
    PROVE  UnknownInv'
<1> SUFFICES ASSUME NEW p \in Proc, Unregistered(p)'
             PROVE  /\ Named(registry', NameOf[p]) = {}
                    /\ \A q \in Proc : /\ Named(listing'[q], NameOf[p]) = {}
                                       /\ ~Knows(q, NameOf[p])'
  BY DEF UnknownInv
<1> USE DEF OrderInv
<1>1. Unregistered(p)
  BY UnregisteredBefore
<1>2. /\ \A e \in registry : e.name # NameOf[p]
      /\ \A q \in Proc : \A e \in listing[q] : e.name # NameOf[p]
      /\ \A q \in Proc : \A i \in DOMAIN cache[q] : cache[q][i].name # NameOf[p]
  BY <1>1 DEF UnknownInv, Named, Knows
<1>3. CASE Fewer
  BY <1>2, <1>3 DEF Fewer, Named, Knows
<1>4. ASSUME NEW r \in requests, Handles(r), UNCHANGED listing,
             r.action = "register", RegisterNode(r)
      PROVE  Named(registry', NameOf[p]) = {}
  <2>1. r.from # p
    BY <1>4, RegistrationIsOver
  <2>2. r.name # NameOf[p]
    BY <2>1, RequestTypes DEF CallInv, UniqueNames
  <2> QED
    BY <1>2, <1>4, <2>2 DEF RegisterNode, EntryOf, Named
<1>5. ASSUME NEW r \in requests, UpdateNode(r)
      PROVE  Named(registry', NameOf[p]) = {}
  BY <1>2, <1>5, UpdateEntries DEF Named
<1>6. ASSUME UNCHANGED <<listing, cache>>
      PROVE  \A q \in Proc : Named(listing'[q], NameOf[p]) = {} /\ ~Knows(q, NameOf[p])'
  BY <1>2, <1>6 DEF Named, Knows
<1>7. ASSUME NEW s \in Proc, AddNode(s)
      PROVE  /\ Named(registry', NameOf[p]) = {}
             /\ \A q \in Proc : Named(listing'[q], NameOf[p]) = {} /\ ~Knows(q, NameOf[p])'
  <2>1. PICK e \in listing[s] : /\ cache' = [cache EXCEPT ![s] = WithNode(s, e)]
                                /\ listing' = [listing EXCEPT ![s] = @ \ {e}]
    BY <1>7 DEF AddNode
  <2>2. /\ listing \in [Proc -> SUBSET ListedEntry] /\ e \in ListedEntry
        /\ cache \in [Proc -> Seq(NodeEntry)]
    BY DEF TypeOK
  <2>3. \A q \in Proc : listing'[q] \subseteq listing[q]
    BY <2>1, <2>2
  <2>4. cache'[s] = WithNode(s, e) /\ \A q \in Proc \ {s} : cache'[q] = cache[q]
    BY <2>1, <2>2
  <2>5. \A i \in DOMAIN cache'[s] : cache'[s][i].name # NameOf[p]
    BY <1>2, <2>2, <2>4, WithNodeEntries
  <2> QED
    BY <1>2, <1>7, <2>3, <2>4, <2>5 DEF Named, Knows, AddNode, registryVars
<1> QED
  BY <1>3, <1>4, <1>5, <1>6, <1>7, ListSteps DEF Handles

LEMMA PassedStep ==
    ASSUME UniqueNames, "timeout" \notin Faults, OrderInv, [Next]_vars, TypeOK'
    PROVE  PassedInv'
<1> USE DEF OrderInv
<1> SUFFICES ASSUME NEW p \in Proc
             PROVE  /\ readX'[p] <= coords'[p][1]
                    /\ \A m \in requests' : m.from = p =>
                         /\ m.action = "register" => NotBeyond(m.coords, coords'[p])
                         /\ m.action = "update" => m.coords = coords'[p]
                    /\ \A e \in Named(registry', NameOf[p]) : NotBeyond(e.coords, coords'[p])
  BY DEF PassedInv
<1>1. /\ coords[p] \in Coordinates /\ coords'[p] \in Coordinates
      /\ readX[p] \in Nat /\ coords[p][1] \in Nat /\ coords'[p][1] \in Nat
      /\ coords[p][2] \in Nat
  BY DirectoryAssumption DEF TypeOK, Coordinates
<1>2. NotBeyond(coords[p], coords'[p])
  BY MoveOn
<1>3. readX'[p] <= coords'[p][1]
  <2>1. readX'[p] = readX[p] \/ readX'[p] = coords[p][1]
    BY MoveOn
  <2>2. readX[p] <= coords[p][1] /\ coords[p][1] <= coords'[p][1]
    BY <1>2 DEF PassedInv, NotBeyond
  <2> QED
    BY <1>1, <2>1, <2>2
<1>4. ASSUME NEW c \in Coordinates, NotBeyond(c, coords[p])
      PROVE  NotBeyond(c, coords'[p])
  BY <1>1, <1>2, <1>4, CoordinatesOrder
<1>5. ASSUME NEW r \in requests, r.from = p, r.action = "update"
      PROVE  r.coords = coords'[p]
  <2>1. pc[p]["position"] \notin {"top", "moveY"}
    BY <1>5 DEF CallInv, ThreadOf
  <2> QED
    BY <1>5, <2>1, MoveOn DEF PassedInv
<1>6. ASSUME NEW r \in requests, r.from = p, r.action = "register"
      PROVE  NotBeyond(r.coords, coords'[p])
  BY <1>4, <1>6, RequestTypes DEF PassedInv
<1>7. ASSUME NEW m \in requests', m.from = p
      PROVE  /\ m.action = "register" => NotBeyond(m.coords, coords'[p])
             /\ m.action = "update" => m.coords = coords'[p]
  <2>1. ASSUME NEW r \in requests, SameCall(m, r)
        PROVE  /\ m.action = "register" => NotBeyond(m.coords, coords'[p])
               /\ m.action = "update" => m.coords = coords'[p]
    BY <1>5, <1>6, <1>7, <2>1 DEF SameCall
  <2>2. CASE m \in requests
    BY <1>5, <1>6, <1>7, <2>2
  <2>3. ASSUME NEW q \in Proc, Register(q), m.from = q, m.action = "register",
               m.coords = <<readX[q], coords[q][2]>>
        PROVE  NotBeyond(m.coords, coords'[p])
    <3>1. readX[p] <= coords[p][1] /\ coords[p][2] <= coords[p][2]
      BY <1>1 DEF PassedInv
    <3>2. coords' = coords
      BY <2>3 DEF Register, nodeVars
    <3> QED
      BY <1>7, <2>3, <3>1, <3>2 DEF NotBeyond
  <2>4. ASSUME NEW q \in Proc, m.from = q, m.action = "update", m.coords = coords'[q]
        PROVE  m.coords = coords'[p]
    BY <1>7, <2>4
  <2>5. \/ m \in requests
        \/ \E r \in requests : SameCall(m, r)
        \/ \E q \in Proc :
             \/ Register(q) /\ m.from = q /\ m.action = "register" /\ m.coords = <<readX[q], coords[q][2]>>
             \/ m.from = q /\ m.action = "update" /\ m.coords = coords'[q]
             \/ m.action \in {"deregister", "list"}
    BY <1>7, RequestsBefore DEF Sent
  <2> QED
    BY <2>1, <2>2, <2>3, <2>4, <2>5
<1>8. \A e \in registry : e.coords \in Coordinates
  BY DEF TypeOK, ListedEntry
<1>9. ASSUME NEW e \in registry, e.name = NameOf[p]
      PROVE  NotBeyond(e.coords, coords'[p])
  BY <1>4, <1>8, <1>9 DEF PassedInv, Named
<1>10. ASSUME NEW r \in requests, r.name = NameOf[p], r.action \in {"register", "update"}
       PROVE  NotBeyond(r.coords, coords'[p])
  <2>1. r.from = p
    BY <1>10, RequestTypes DEF CallInv, UniqueNames
  <2> QED
    BY <1>1, <1>5, <1>6, <1>10, <2>1, CoordinatesOrder
<1>11. ASSUME NEW e \in registry', e.name = NameOf[p]
       PROVE  NotBeyond(e.coords, coords'[p])
  <2>1. CASE registry' \subseteq registry
    BY <1>9, <1>11, <2>1
  <2>2. ASSUME NEW r \in requests, r.action = "register", RegisterNode(r)
        PROVE  NotBeyond(e.coords, coords'[p])
    <3>1. e \in registry \/ (e.name = r.name /\ e.coords = r.coords)
      BY <1>11, <2>2 DEF RegisterNode, EntryOf
    <3> QED
      BY <1>9, <1>10, <1>11, <2>2, <3>1
  <2>3. ASSUME NEW r \in requests, r.action = "update", UpdateNode(r)
        PROVE  NotBeyond(e.coords, coords'[p])
    <3>1. PICK f \in registry : /\ e.name = f.name
                                /\ e = f \/ (f.name = r.name /\ e.coords = r.coords)
      BY <1>11, <2>3, UpdateEntries
    <3> QED
      BY <1>9, <1>10, <1>11, <2>3, <3>1
  <2>4. ASSUME NEW q \in Proc, AddNode(q) PROVE registry' = registry
    BY <2>4 DEF AddNode, registryVars
  <2> QED
    BY <2>1, <2>2, <2>3, <2>4, ListSteps DEF Fewer
<1> QED
  BY <1>3, <1>7, <1>11 DEF Named

LEMMA CacheCoordinates ==
    ASSUME TypeOK, NEW p \in Proc, NEW i \in DOMAIN cache[p]
    PROVE  cache[p][i].coords \in Coordinates
<1>1. cache[p] \in Seq(NodeEntry)
  BY DEF TypeOK
<1>2. DOMAIN cache[p] = 1 .. Len(cache[p]) /\ \A k \in DOMAIN cache[p] : cache[p][k] \in NodeEntry
  BY <1>1, LenProperties
<1> QED
  BY <1>2 DEF NodeEntry

LEMMA OrderedStep ==
    ASSUME UniqueNames, "timeout" \notin Faults, OrderInv, [Next]_vars, TypeOK'
    PROVE  OrderedInv'
<1> USE DEF OrderInv
<1>1. /\ \A e \in registry \cup registry' : e.coords \in Coordinates
      /\ \A q \in Proc : \A e \in listing[q] : e \in ListedEntry /\ e.coords \in Coordinates
      /\ \A q \in Proc : \A i \in DOMAIN cache[q] : cache[q][i].coords \in Coordinates
  <2>1. \A q \in Proc : \A i \in DOMAIN cache[q] : cache[q][i].coords \in Coordinates
    BY CacheCoordinates
  <2>2. /\ registry \cup registry' \subseteq ListedEntry
        /\ \A q \in Proc : listing[q] \subseteq ListedEntry
    BY DEF TypeOK
  <2> QED
    BY <2>1, <2>2 DEF ListedEntry
<1>2. CASE Fewer
  <2>1. OneEach(registry') /\ \A q \in Proc : OneEach(listing'[q])
    BY <1>2 DEF Fewer, OrderedInv, OneEach
  <2>2. ASSUME NEW q \in Proc, NEW i \in DOMAIN cache'[q], NEW f \in registry' \cup listing'[q],
               cache'[q][i].name = f.name
        PROVE  NotBeyond(cache'[q][i].coords, f.coords)
    <3>1. f \in registry \cup listing[q] /\ cache'[q] = cache[q]
      BY <1>2 DEF Fewer
    <3> QED
      BY <2>2, <3>1 DEF OrderedInv
  <2>3. ASSUME NEW q \in Proc, NEW e \in listing'[q], NEW f \in registry', e.name = f.name
        PROVE  NotBeyond(e.coords, f.coords)
    <3>1. f \in registry /\ f.coords \in Coordinates
      BY <1>1, <1>2 DEF Fewer
    <3>2. CASE e \in listing[q]
      BY <2>3, <3>1, <3>2 DEF OrderedInv
    <3>3. CASE e \in registry
      <4>1. e = f
        BY <2>3, <3>1, <3>3 DEF OrderedInv, OneEach
      <4> QED
        BY <3>1, <4>1, CoordinatesOrder
    <3> QED
      BY <1>2, <3>2, <3>3 DEF Fewer
  <2> QED
    BY <2>1, <2>2, <2>3 DEF OrderedInv
<1>3. ASSUME NEW r \in requests, Handles(r), UNCHANGED listing,
             r.action = "register", RegisterNode(r)
      PROVE  OrderedInv'
  <2>1. /\ \A e \in registry : e.name # r.name
        /\ \A q \in Proc : \A e \in listing[q] : e.name # r.name
        /\ \A q \in Proc : \A i \in DOMAIN cache[q] : cache[q][i].name # r.name
    <3>1. Unregistered(r.from) /\ r.from \in Proc /\ r.name = NameOf[r.from]
      BY <1>3, RegistrationIsOver, RequestTypes DEF CallInv
    <3> QED
      BY <3>1 DEF UnknownInv, Named, Knows
  <2> DEFINE new == EntryOf(r, pushes + 1)
  <2>2. registry' = registry \cup {new} /\ new.name = r.name
    BY <1>3 DEF RegisterNode, EntryOf
  <2> HIDE DEF new
  <2> QED
    BY <1>3, <2>1, <2>2 DEF OrderedInv, OneEach, Handles
<1>4. ASSUME NEW r \in requests, Handles(r), UNCHANGED listing,
             r.action = "update", UpdateNode(r)
      PROVE  OrderedInv'
  <2>1. r.from \in Proc /\ r.name = NameOf[r.from] /\ r.coords = coords[r.from]
    BY <1>4, RequestTypes DEF CallInv, PassedInv
  <2>2. ASSUME NEW f \in registry'
        PROVE  \E e \in registry : e.name = f.name /\ NotBeyond(e.coords, f.coords)
    <3>1. PICK e \in registry : /\ f.name = e.name
                                /\ f = e \/ (e.name = r.name /\ f.coords = r.coords)
      BY <1>4, UpdateEntries
    <3>2. e.name = r.name => NotBeyond(e.coords, r.coords)
      BY <2>1 DEF PassedInv, Named
    <3> QED
      BY <1>1, <3>1, <3>2, CoordinatesOrder
  <2>3. ASSUME NEW c \in Coordinates, NEW f \in registry',
               \A e \in registry : e.name = f.name => NotBeyond(c, e.coords)
        PROVE  NotBeyond(c, f.coords)
    <3>1. PICK e \in registry : e.name = f.name /\ NotBeyond(e.coords, f.coords)
      BY <2>2
    <3>2. e.coords \in Coordinates /\ f.coords \in Coordinates
      BY <1>1
    <3> QED
      BY <2>3, <3>1, <3>2, CoordinatesOrder
  <2>4. OneEach(registry')
    BY <1>4, UpdateKeepsOneEach DEF OrderedInv
  <2>5. ASSUME NEW q \in Proc, NEW i \in DOMAIN cache[q], NEW f \in registry',
               cache[q][i].name = f.name
        PROVE  NotBeyond(cache[q][i].coords, f.coords)
    BY <1>1, <2>3, <2>5 DEF OrderedInv
  <2>6. ASSUME NEW q \in Proc, NEW e \in listing[q], NEW f \in registry', e.name = f.name
        PROVE  NotBeyond(e.coords, f.coords)
    BY <1>1, <2>3, <2>6 DEF OrderedInv
  <2> QED
    BY <1>4, <2>4, <2>5, <2>6 DEF OrderedInv, OneEach, Handles
<1>5. ASSUME NEW s \in Proc, AddNode(s) PROVE OrderedInv'
  <2>1. PICK e \in listing[s] : /\ cache' = [cache EXCEPT ![s] = WithNode(s, e)]
                                /\ listing' = [listing EXCEPT ![s] = @ \ {e}]
    BY <1>5 DEF AddNode
  <2>2. /\ listing \in [Proc -> SUBSET ListedEntry] /\ e \in ListedEntry
        /\ cache \in [Proc -> Seq(NodeEntry)]
        /\ registry' = registry
    BY <1>5 DEF TypeOK, AddNode, registryVars
  <2>3. /\ listing'[s] = listing[s] \ {e} /\ cache'[s] = WithNode(s, e)
        /\ \A q \in Proc \ {s} : listing'[q] = listing[q] /\ cache'[q] = cache[q]
    BY <2>1, <2>2
  <2>4. ASSUME NEW i \in DOMAIN cache'[s], NEW f \in registry' \cup listing'[s],
               cache'[s][i].name = f.name
        PROVE  NotBeyond(cache'[s][i].coords, f.coords)
    <3>1. CASE cache'[s][i].name = e.name /\ cache'[s][i].coords = e.coords
      <4>1. f \in registry
        BY <2>2, <2>3, <2>4, <3>1 DEF OrderedInv, OneEach
      <4> QED
        BY <2>4, <3>1, <4>1 DEF OrderedInv
    <3>2. CASE i \in DOMAIN cache[s] /\ cache'[s][i] = cache[s][i]
      BY <2>2, <2>3, <2>4, <3>2 DEF OrderedInv
    <3> QED
      BY <2>2, <2>3, <3>1, <3>2, WithNodeEntries
  <2>5. \A q \in Proc : OneEach(listing'[q]) /\ listing'[q] \subseteq listing[q]
    BY <2>3 DEF OrderedInv, OneEach
  <2> QED
    BY <2>2, <2>3, <2>4, <2>5 DEF OrderedInv
<1> QED
  BY <1>2, <1>3, <1>4, <1>5, ListSteps

LEMMA OrderInvariant ==
    ASSUME UniqueNames, "timeout" \notin Faults PROVE Spec => []OrderInv
<1>1. ASSUME Init PROVE OrderInv
  <2>1. TypeOK
    BY <1>1, InitType
  <2>2. CallInv /\ ThreadInv
    BY <1>1 DEF Init, RegistryInit, CallInv, ThreadInv, Everywhere, Thread
  <2>3. UnknownInv /\ PassedInv /\ OrderedInv
    BY <1>1, DirectoryAssumption
       DEF Init, RegistryInit, UnknownInv, PassedInv, OrderedInv, OneEach, Named, Knows
  <2> QED
    BY <2>1, <2>2, <2>3 DEF OrderInv
<1>2. ASSUME OrderInv, [Next]_vars PROVE OrderInv'
  <2>1. TypeOK'
    BY <1>2, TypeStep DEF OrderInv
  <2>2. CallInv' /\ ThreadInv'
    BY <1>2, CallStep DEF OrderInv, CallsKept
  <2> QED
    BY <1>2, <2>1, <2>2, UnknownStep, PassedStep, OrderedStep DEF OrderInv
<1> QED
  BY <1>1, <1>2, PTL DEF Spec

(***************************************************************************)
(* With names of their own and no request given up for being slow, the     *)
(* positions a process knows only move on, however long a list it applies  *)
(* has been waiting, however the position thread tears the payload of the  *)
(* registration, and even if requests fail, processes are killed and the   *)
(* registry starts again empty.                                            *)
(***************************************************************************)
THEOREM PositionsMoveOn ==
    ASSUME UniqueNames, "timeout" \notin Faults PROVE Spec => PositionsNeverGoBack
<1> DEFINE MoveOnly == \A p \in Proc : \A i \in DOMAIN cache[p] :
                         /\ cache[p][i].coords[1] <= cache'[p][i].coords[1]
                         /\ cache[p][i].coords[2] <= cache'[p][i].coords[2]
<1>1. ASSUME OrderInv, [Next]_vars PROVE MoveOnly
  <2>1. SUFFICES ASSUME NEW p \in Proc, NEW i \in DOMAIN cache[p]
                 PROVE  NotBeyond(cache[p][i].coords, cache'[p][i].coords)
    BY DEF NotBeyond
  <2>2. cache[p][i].coords \in Coordinates
    BY <1>1, CacheCoordinates DEF OrderInv
  <2>3. NotBeyond(cache[p][i].coords, cache[p][i].coords)
    BY <2>2, CoordinatesOrder
  <2>4. CASE cache'[p] = cache[p]
    BY <2>3, <2>4
  <2>5. ASSUME NEW s \in Proc, AddNode(s)
        PROVE  NotBeyond(cache[p][i].coords, cache'[p][i].coords)
    <3>1. PICK e \in listing[s] : cache' = [cache EXCEPT ![s] = WithNode(s, e)]
      BY <2>5 DEF AddNode
    <3>2. e \in ListedEntry /\ cache \in [Proc -> Seq(NodeEntry)]
      BY <1>1 DEF OrderInv, TypeOK
    <3>3. CASE s = p
      <4>1. cache'[p] = WithNode(p, e) /\ e \in listing[p]
        BY <3>1, <3>2, <3>3
      <4>2. /\ i \in DOMAIN cache'[p] /\ cache'[p][i].name = cache[p][i].name
            /\ \/ cache'[p][i].name = e.name /\ cache'[p][i].coords = e.coords
               \/ cache'[p][i] = cache[p][i]
        BY <1>1, <3>2, <4>1, WithNodeEntries DEF OrderInv
      <4> QED
        BY <1>1, <2>3, <4>1, <4>2 DEF OrderInv, OrderedInv
    <3>4. CASE s # p
      BY <2>3, <3>1, <3>2, <3>4
    <3> QED
      BY <3>3, <3>4
  <2> QED
    BY <1>1, <2>4, <2>5, ListSteps DEF OrderInv, Fewer, Handles
<1> HIDE DEF MoveOnly
<1>2. ASSUME OrderInv, [Next]_vars PROVE [MoveOnly]_vars
  BY <1>1, <1>2
<1> QED
  BY <1>2, OrderInvariant, PTL DEF Spec, PositionsNeverGoBack, MoveOnly
=============================================================================
