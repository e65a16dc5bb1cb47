# Nexus: specifications of the C++ peer-to-peer system

TLA+ modules for the C++ program of this repository: `./nexus` (ground stations and satellites that send
each other messages and files over UDP) and `./registry_server` (the list of nodes, over HTTP). Paths
below are relative to the repository; `NetworkManager.cpp:241` is short for `src/NetworkManager.cpp`,
line 241. `PROJECT.json` links every definition to the lines it models.

1. [The system](#the-system)
2. [Modules and code](#modules-and-code)
3. [Runs](#runs)
4. [Fairness](#fairness)
5. [Proofs](#proofs)
6. [Where code and documents disagree](#where-code-and-documents-disagree)
7. [Not modelled](#not-modelled)
8. [Plan](#plan)

## The system

### Parts, state, operations

| part | state | operations | should be true of it |
|---|---|---|---|
| routing table (`src/NetworkManager.cpp`) | `nodes`, `topology`, `nextHop`, `src_idx` of one process, no lock | `addNode`, `updateRoutingTable`, `createRoutingTable`, `route`; `findNode`, `getNextHop` | shortest paths by the weights of `updateRoutingTable`; no written entry relays through oneself; indices stay valid while the list grows under a reader; each round ends |
| registry (`src/NexusRegistryServer.cpp`) | `nodes` behind one mutex, in memory | `register`, `deregister`, `update`, `list`, each in a detached thread per connection | a running process is listed once at its address; one that has left stays out; positions do not go back |
| process life cycle (`nexus_main/main.cpp`) | `isRunning`, four threads, the UDP socket, the local copy of the list | start, register, bind, refresh every `UPDATE_INTERVAL`, `q`, deregister, join | runs until `q`, then ends; running processes find each other and each other's positions |
| registry client (`performCurlRequest`) | none | a blocking POST with a time-out of 10 s | always gets back; takes effect once or not at all; a failed request must not harm the process; callers of `register` and `update` are told whether there was a reply, not what it says |
| file transfer (`src/Node.cpp`) | fragments and `final_<source>` in `/tmp`, shared by all processes (the registry is on 127.0.0.1, so they are on one host) | `sendFile`, relaying in `receiveMessage`, `writeToFile`, `reassembleFile` | a file arrives whole in spite of order, routes and other receivers; nothing is left in `/tmp` |
| messages (`src/Node.cpp`, `handleInput`) | the command entered last | `sendMessage`, `receiveMessage`, `processMessage` | what is printed was entered for a node of that name; a name means the same node as long as it is known |
| packets (`src/Packet.cpp`) | none | `serialize`, `deserialize`, CRC | round trip; a damaged packet is refused, and ends no more than one process |
| command line (`nexus_main/main.cpp`, `NodeType.h`) | none | parsing twelve arguments | options in any order |
| `CryptoManager`, `Logger`, `Utility` | keys; the log's mutex | RSA and AES, logging, rounding | |
| Python prototype (`Python code/`) | peers, ground nodes, chunks received | TCP satellites and ground stations that flood, retry and put files together | a program of its own: what is saved is the file that was sent; the flood ends |

### How they interact

* `main` creates the node, starts the position thread of a satellite, registers, binds the socket, starts
  the receiver and the fetch thread, and then reads commands. `q` clears `isRunning`, deregisters and joins.
* Position, fetch and main thread each make HTTP requests and wait for the reply. The registry handles each
  connection in its own thread, so requests of *different* threads of one process can be handled in any order;
  those of one thread cannot, unless it has given up waiting (time-out).
* The fetch thread writes `nodes`, `topology` and `nextHop`; the input thread reads them
  (`findNode`, `getNextHop`) to send. Nothing protects them.
* The position thread writes the two coordinates one after the other; main reads them for the registration.
* Datagrams go to the target, or to the relay `getNextHop` names, which sends them on *directly to the target*
  (`Node.cpp`, `receiveMessage`): there is one relay at most.

### What is hard

Threads that share vectors without a lock; handlers in any order; a registry that forgets everything at a
restart; processes that are killed before they can deregister; requests that are given up by the client
and handled by the server; threads that block in `recvfrom` while main waits for them; `int` distances
and a scan whose comparisons decide what is settled; datagrams lost, duplicated and out of order; one
directory for fragments of all receivers, named without the file. `PROJECT.json`, "hazards", lists each one
at its line with the properties that would see it go wrong, or why there is none yet.

## Modules and code

| module | models | actions and their code |
|---|---|---|
| `LinkWeight` | cost of a link | `Weight`: the body of the inner loop of `updateRoutingTable`. Coordinates count ticks so that narrowing a double is integer division |
| `Routing` | routing table, fetch and input thread of one process | `RefreshNode`, `BeginPush`, `EndPush` (`addNode`); `BeginRoute` (matrix, source, `resize`), `ResetHop` (one entry of the loop that resets), `Visit` (one iteration of the loop of `route`), `RouteWithoutNodes` (`minDist[0]` of an empty vector); `FindNode`, `GetNextHop`, `ReadBeyondNextHop` (index behind the vector), `ReadDuringMove` (vector reallocated under a reader) |
| `NexusRegistryServer` | the registry's list | `RegisterNode`, `DeregisterNode`, `UpdateNode`, `ProcessRequest` |
| `Directory` | registry and processes together | main: `Launch`, `ReadX`, `Register`, `Bind`, `BindFails`, `Quit`, `JoinThreads`; position: `MoveX`, `MoveY`, `StopMoving`; fetch: `FetchNodes`, `AddNode`, `UpdateRoutingTable`, `RouteWithoutNodes`, `StopFetching`; receiver: `DatagramArrives`, `ReceiveLoop`; registry: `HandleClient`; faults: `RequestFails`, `RequestTimesOut`, `RestartRegistry`, `CutRequestFails`, `Kill` |
| `FileTransfer` | sending, relaying, storing and assembling files | `SendFile`, `SendFragment`; `Lose`, `Duplicate`; `Forward`, `Receive`; `WriteToFile`, `CountFragments`, `CopyFragment`, `CloseFile` |
| `FileDelivery` | abstract: what the `file` command promises | `Send`, `Arrive`, `Deliver`; models no code. `FileTransfer` implements it |
| `CommandLine` | arguments of `./nexus` | `ExitCode` (the loop of `main` and its exits), `Given` (an option's value), `FromString` (`NodeType`) |
| `Packet` | packets and datagrams, byte by byte | `NewPacket` (constructor), `Serialize`, `Fields` and `VerifyCRC` (`deserialize`), `CalculateCRC` |
| `Messaging` | the `message` command on all nodes; extends `Packet` and `CommandLine` | user: `EnterMessage`, `InputEnds`; input thread: `RepeatCommand`, `SendMessage`; `Learn` (an entry of a list reply); `ReceiveMessage`; network: `Unreachable`, `Lose`, `Duplicate`, `Damage`; `Kill` |
| `RegistryService` | abstract: what the registry promises a caller | `Call`, `TakeEffect`, `Refuse`, `Answer`, `GiveUp`, `Restart`; only the operators for what a caller makes of a reply model code. `RegistryExchange` implements it |
| `RegistryExchange` | one call of the registry: client, socket, backlog, handler thread | caller: `Call`, `Connect`, `SendHeaders`, `SendBody`, `Receive`, `ConnectionFails`, `TimesOut`; registry: `Start`, `Accept`, `ReadFromSocket`, `Process`, `WriteToSocket`, `Kill` |
| `PythonTransfer` | a file in the Python prototype | ground node: `SendChunk`, `SendFails`, `HandleFileTransfer`; satellite: `ForwardToGround`, `ForwardToPeer`, `EndForwarding` |
| `MC...` | instances for TLC | |
| `RoutingProofs`, `DirectoryProofs`, `FileTransferProofs`, `PacketProofs`, `MessagingProofs`, `RegistryExchangeProofs`, `PythonTransferProofs` | theorems | |
| `InductionProofs` | induction on numbers, for the theorems about recursive functions | |

`Messaging` is where packets, command line, node list and threads come together; `RegistryExchange` details the step that
`Directory` takes as `Send`, `HandleClient` and `Return`, with the operators of `NexusRegistryServer` in both.

Choices a reader should know of:

* **Routing.** Vectors of C++ start at 0, sequences here at 1. The `resize` of `nextHop`, each entry that is then
  reset and each iteration of the outer loop of `route` are one step: none writes an entry of `nextHop` twice and a reader
  reads one entry. So a reader can meet the zeros of `resize` (`zeroed`), which mean the first node, and entries of the last round. Reading behind a
  vector, or a vector being moved, is undefined: what is read is anything in `Garbage`, node or not (`Strayed`), or the process crashes. What the
  program does with such an index is not followed further. `DistancesFit` assumes coordinates whose squares fit an `int`, as the sum in `LinkWeight` is one;
  beyond that the code overflows, which is not modelled. `Listing` is what
  the registry may report, in any order; `Directory` says what it does report. The sum of two weights is
  compared by their difference, which says the same as the code's 64-bit sum.
* **Registry.** The vector is a set of entries with the order of insertion as a field: only "first entry of
  that name" depends on it. All of a request but its parsing happens under the mutex: one step.
* **Directory.** A *process* is one run of the program; starting a node again is another process with
  the same name. The four threads have their own program counters; `isRunning` is a function of main's.
  Coordinates count moves, so "later position" is "greater". Applying a list is one step per entry. The receiver
  thread starts before its loop and looks at `isRunning` there and after each datagram. The routing table is its size. The index-level detail is in `Routing`.
* **FileTransfer.** A file is a sequence of chunks, `FragmentSize` of which fill a buffer. `/tmp` is one set of
  fragments for all nodes, keyed by source and number. Assembling is one step for the count and one per
  fragment, so that receivers interleave. A fragment that is missing leaves the output stream failed, as
  `operator<<` of an empty stream buffer does. The hop of each fragment is a relay or the target.
* **Packet.** A byte is the set of its bits, an integer the sequence of its bytes in memory, so that conversions
  between byte orders are reversals and nothing needs 32-bit arithmetic. Addresses and ports are in network
  order before `serialize` turns them round once more, as in the code. The fields of fragments of a text message are
  never initialised: they may hold anything (`Garbage`). `version` is not checked by `deserialize`.
* **Messaging.** The arguments of each process are those of `runme.sh`, read by `CommandLine`. An entry of a
  node list stands for the process that registered it. `Hops` is any node of the list or the sender itself, whatever `getNextHop` may return
  while `route` runs; the crashes of `Routing` are left to `Routing`.
  An exception that leaves the receiver thread ends the process (`"aborted"`). A relay sends on to `tAddress` and
  `tPort`, with a CRC it has computed anew. `sent` and `printed` are histories. Texts are at most as long as a
  packet's data: `std::copy` writes a longer one behind the array, which is undefined. The receiver prints its *own* port as the sender's
  (`Node.cpp:322`), so `Genuine` speaks of the address alone.
* **RegistryExchange.** `curl` may send headers and body apart, the handler calls `recv` once: headers alone are a
  request that is not JSON. Every reply is `200 OK`; `reply` keeps its body apart, which only the callers of `list`
  and `getPublicKey` look at. The others return what `performCurlRequest` does: true ("done") for every reply, an error as well. A registry that is killed takes its list, its backlog and its handlers with it. A
  `start` that fails to bind ends the program and is a stutter.
* **PythonTransfer.** A coroutine handles one packet; awaiting one peer after the other is one step per peer.
  `MaxHops` bounds the flood: a copy that has passed so many satellites and would go on stays where it is, so that
  a flood without end is a copy that never goes away. Files have at least one chunk (an empty one is never sent).

## Runs

`tlc -config X.cfg M` runs each of them. `CHECK_DEADLOCK FALSE` is set because the system may stop: a process
crashes, quits or is killed, all files have been sent, and then nothing more has to happen.

### Routing (`MCRouting`)

| run | instance | shows |
|---|---|---|
| `routing_chain` | `Chain`: g1, s1, s2, g2 in a line, learnt in every order, a user who looks up any name at any time | `ShortestTree`, `ShortestPaths` (against Bellman and Ford's recurrence), `NoSelfRelay`, `HopsInRange`, `GroundNeedsRelay`, `IndexStable`, `RouteTerminates`, `EveryNodeGetsAnEntry`, `TypeOK` |
| `routing_moving` | `Moving`: a satellite with two positions, one listed under two ports; `IntMax` = 400000, which some links exceed | `FreshTable`, and `ShortestPaths` when the matrix is overwritten, not grown, and when distances do not fit an `int` |
| `routing_next_hop` | `Chain` | **violated**: `NextHopIsNext` |

Bounds: four nodes give a path with two relays, the least on which "last" and "next" relay differ, every
order of discovery, ties, unreached nodes (two ground stations alone) and a list longer than the table.
Distances on both sides of `PenaltyFrom` occur, and the sum of two penalised links. `MaxDistance` only
bounds the search of the integer square root; TLC evaluates `DistancesFit`, that no distance of the instance is beyond it. `Garbage` has a number that is
an index and numbers that are none. The theorems below need no bound.

### Directory (`MCDirectory`)

| run | processes, faults | shows |
|---|---|---|
| `directory` | ground station and moving satellite, own names | `SessionIsListed`, `GoneStaysGone`, `SourceIsKnown`, `PositionsNeverGoBack`, `RunsUntilQuit`, `PositionsConverge`, `TypeOK` in all interleavings of threads and handlers |
| `directory_faults` | two processes of one name and address, one of them receives datagrams; one fault of any kind | `CacheDistinct`, `QuitEndsWithTraffic` |
| `directory_quit` | one process nobody sends to | **violated**: `QuitEnds` |

Bounds: `MaxMoves` = 1 gives each coordinate an old and a new value, so torn and late positions
differ from good ones. Two processes are all that the properties relate, one that is observed and one that
observes; a third one's requests touch entries of its own name only (`SessionsAreListed` is proved for
any number). One fault is enough for each kind to meet every state of both processes; the second process
with the same name stands for a restart after a kill, for a node started twice by mistake and for a port that is taken.

### File transfer (`MCFileTransfer`)

| run | instance | shows |
|---|---|---|
| `file_transfer` | a sends t1 to c and t2 to b, b sends t3 to c and relays; sizes 3, 5, 3 with 2 chunks to a fragment | `FilesAreDelivered` (implements `FileDelivery`), `NothingLeftBehind`, `TypeOK` |
| `file_transfer_faults` | one file per source, up to two datagrams lost and two duplicated | `AssembledWhole` |
| `file_transfer_missing` | two files from a, one datagram lost | **violated**: `NoFragmentMissing` |

Bounds: two and three fragments, each with a partial one at the end, two receivers that assemble at the same time, both
ways for every fragment. `FilesAreDelivered` says "begins with the file that was sent", because the
last fragment is always a whole buffer, and assumes users who wait for one file to settle
before they send the next (`Hasty` = FALSE) and prefixes of which none begins another (`OwnPrefix`). It fails
without either: nothing in the packet tells one file of a source from the next one.

### Messages (`MCMessaging`)

| run | instance | shows |
|---|---|---|
| `messaging` | ground1 sends to "ground2", a name that two processes have at two ports, directly, by the satellite, by the other run of that name or by its own socket; an empty and a short text; one fault of any kind | `Genuine`, `DamageIsContained`, `SameRecipient`, `BurstsAreDetected`, `AnyOrderStarts`, `Arrives`, `TypeOK` |

Bounds: two processes of one name are what it takes for "first" and "last" to differ; two commands for a name
that is looked up before and after the second is learnt. One damaged datagram meets the sender's link and the
relay's. Damage in the state graph is the inversion of three bytes, the target's port and the type, or of a bit of a letter: such a packet
would be stored as a file's, take another way or be printed if the CRC let it through. `BurstsAreDetected` is about the CRC alone and takes every single bit and every
run of one, two and four inverted bytes at every place of the datagram. `DataSize` = 3 leaves a byte
of padding behind the longest text; `RoundTrip` is proved for any size.

### Registry exchange (`MCRegistryExchange`)

| run | instance | shows |
|---|---|---|
| `registry_exchange` | two calls, each of any of six kinds, a backlog of one, one restart | `ServiceImplemented` (refinement of `RegistryService`), `AcknowledgedIsListed`, `Returns`, `HandlersEnd`, `TypeOK` |

Bounds: two calls are in each other's way in the backlog and in the list; with two addresses an update differs from the
entry it finds. Headers may be read without their body, which is an error that the caller of `register` takes for success: `AcknowledgedIsListed`
leaves out those requests, and is violated without that exception. A backlog of one is full with one call, as the code's ten are with ten. One restart separates "before" from
"after". "First entry of a name" needs two registrations and a third call: `Directory` has those.

### Python prototype (`MCPythonTransfer`)

| run | instance | shows |
|---|---|---|
| `python_transfer` | a file of two chunks by a satellite that does not know the target and two peers that do; all peers of each other; two tries, one failing connection | `SavedWhole`, `Settles`, `Delivered`, `TypeOK` |

Bounds: two chunks come in both orders; two peers double each of them; a failure of the first link is retried, one of a
later link leaves the other way. Each way has at most two satellites in this instance, so `MaxHops` = 3 cuts none. `Settles` is not true
of every network: two peers that both do not know the target send a packet to each other for ever.

### Properties and mutants

Each property of a passing run has a mutated definition next to the original ("mutant" in a comment) with which the
run fails, for example `IsNext` (nodes settled in list order), `DeregisterOthers` (the test of `remove_if` the
wrong way round), `Upsert` (an update of an unlisted node adds it), `KeepFragment` (no removal), `VerifyOnWire` (the CRC is
not turned round), `RespondAndGoOn` (a handler that does not end). They are
listed in `PROJECT.json`.

## Fairness

* `Routing`: weak fairness of `EndPush`, `ResetHop` and `VisitNearest`: the loops of the fetch thread contain no
  blocking call; and of `RoundBegins`: each list has an end, after which the routes are computed, and the thread sleeps for bounded times between
  lists. Users and the registry's replies are under none.
* `Directory`: weak fairness of each thread of each process (they sleep for bounded times and then go on; of the receiver only
  outside `recvfrom`), of
  each thread's request being handled (the registry starts a thread for each connection, and a mutex is
  held for bounded times) and of a cut request ending (curl gives up after 10 s). There is none for users,
  who need never start or quit; for faults; or for datagrams: `QuitEndsWithTraffic` states their
  arrival as its assumption, because `q` needs it, and `QuitEnds` is violated without.
* `FileTransfer`: weak fairness of `SendFragment` (a loop) and of each receiver thread. A datagram that is not
  lost is received; which of several comes first is open. There is none for users and the network's faults.
* `Messaging`: weak fairness of each input thread (between two prompts it does not block) and of each receiver
  thread, as above. `Arrives` says what may be in a message's way: a loss, damage, an end of the target or the relay.
* `RegistryExchange`: weak fairness of a caller's next step, which in the end is its timer
  (`CURLOPT_CONNECTTIMEOUT`, `CURLOPT_TIMEOUT`). Nothing is assumed of the registry: `Returns` must hold even if it hangs.
  `HandlersEnd` states the fairness of handler threads as its assumption.
* `PythonTransfer`: weak fairness of sending, relaying and receiving: an event loop runs each coroutine that can go
  on. None for failures.

## Proofs

Checked by TLAPS for every value of the constants that satisfies the named assumption of its module (`LinkAssumption`,
`RoutingAssumption`, `DirectoryAssumption`, `TransferAssumption` of `FileTransfer` and of `PythonTransfer`,
`PacketAssumption`, `MessagingAssumption`, `ExchangeAssumption`), which TLC evaluates in the runs. Where a theorem needs more, it names
its hypothesis, a statement about the constants, and the section below says what goes wrong without it.

**`InductionProofs`.** What a recursive function computes is proved by induction over numbers in a form the provers can take:
a claim is the *set* of the numbers it is true of (`UpTo`), and a recursive definition is given by the *function* that makes each
value from the one before (`RecursiveFunction`). Both come from the least counterexample (`LeastNumber`), which `WFMin` and
`NatLessThanWellFounded` of the library provide; the library's induction rules themselves take an operator, which no installed prover can instantiate.

**`RoutingProofs`.** `TypeCorrect`, `RouteIsShortest` (`ShortestTree`), `NeverSelfRelay`, `HopsStayInRange`,
`IndicesStable`, `TablesAreFresh`: any listing, any number of nodes, any `IntMax` > 0. The properties are not
inductive: nothing in `ShortestTree`, which is about finished tables, says what holds in the middle
of the loop. The inductive invariant is `IInv == TypeInv /\ TableInv /\ SourceInv /\ DijkstraInv`:

* `TypeInv`: `TypeOK`, and an entry being pushed is one of the listing;
* `TableInv`: the table covers a prefix of the list, all of it while `route` runs, and `topology` is then that
  of the list as it is. That is what makes it sound to use indices of one length with another, and `HopsStayInRange`: entries are in range
  between `resize` and reset as well, since those kept were in a shorter table and a zero is in any. It says nothing of what is read behind the table;
  that such reads come to an end is `EveryNodeGetsAnEntry`;
* `SourceInv`: the source is the first node of the process's own name, or the first of all as long as the table has none of that name. So if the
  source of a round is another than that of the round before, the earlier one was the first node and the later one was not in that table: no entry kept over
  `resize` leads to it. A zero does if the source is the first node, and only until that entry is reset (`zeroed`): that is the exception in
  `NoSelfRelay`, which is what the code does;
* `DijkstraInv`: visited nodes are nearer than the others (`VisitedNearer`), no link out of a visited node
  offers a shorter way (`VisitedRelaxed`), each reached node is one link beyond a visited one
  (`ReachedThroughVisited`), unreached ones that have been reset have themselves as their hop (`UnreachedDirect`).
  When all are visited this is `ShortestTree`. That weights are natural numbers (`WeightType`) is what
  makes a settled distance final.

`ShortestTree` says that the distances satisfy the equations of shortest paths with a tree that
attains them. `RoutesAreShortestPaths` (`ShortestPaths`) says that they are the lengths of shortest paths, by the definition that has
no table: `Within` extends walks link by link, as Bellman and Ford do. One direction is an invariant of its own:

* `WalkInv`: after c visits no distance is below the length of the shortest walk of at most c links. A visit adds
  one link to a walk that was found before;
* in the other direction `VisitedRelaxed` is enough when all nodes are visited: by induction over the number of its links,
  no walk is shorter than the distance of its end (`NoWalkIsShorter`).

`GroundsAreRelayed` (`GroundNeedsRelay`) needs `LinksFit`: two of the longest links fit an `int`. With 32 bits that allows
nodes 30,000 units apart. Without it a satellite may be listed and every path over it too long to be stored. `LinkInv` says that
exactly the links between two ground stations are missing in the matrix, also when the list has grown and nodes have moved, and that no link is longer than `Farthest`.

**`DirectoryProofs`.** `TypeCorrect`, and `NodesAreDistinct` (`CacheDistinct`), for any processes, names, addresses and
faults. `SessionsAreListed` and `GoneStayGone` assume `UniqueNames` and `Faults = {}`, for any number of
processes. With shared names a process that quits removes the other's entry, and with time-outs a late
`register` lists a process that has left: both are as in the code and need the assumptions. The inductive invariant is
`SessionInv == TypeOK /\ RequestInv /\ ThreadInv /\ RosterInv`:

* `RequestInv`: a request is the one its thread waits for, or from a dead process, and then no registration.
  Without it an old `register` could be on its way;
* `ThreadInv`: which threads exist at which point of main;
* `RosterInv`: for each point of main, whether the registry lists the process. A process is unlisted before
  its registration is handled, so that an early update of the position thread finds no entry, and after its
  deregistration is, so that a late one finds none either.

`OwnNodeIsKnown` (`SourceIsKnown`) and `AllRunUntilQuit` (`RunsUntilQuit`) follow under the same hypotheses with `KnowledgeInv`: whoever has a table
knows its own name, or is about to add a list that has it. So `route` never runs on an empty list, which would end the process.
`AllRunUntilQuit` needs `UniqueAddresses` too: `bind` fails for a port that is taken.

`PositionsMoveOn` (`PositionsNeverGoBack`) is proved with unique names and any faults but time-outs: failing requests, kills and restarts
of the registry. A request that its caller has given up may be handled after a later one, and positions then do go back. Its
inductive invariant is `OrderInv`:

* `CallInv`: a thread has one request at a time and waits for it, unless it is dead;
* `UnknownInv`: nobody knows of a process before its registration is handled; the registration carries coordinates read earlier,
  which an update may already have overtaken;
* `PassedInv`: whatever was said of a satellite, in a request or in the registry, is where it has been;
* `OrderedInv`: what a process has is not ahead of the list it is adding, nor that of the registry.

**`FileTransferProofs`.** `TypeCorrect` for any processes, files, sizes and faults. The other theorems are about files whose fragments are told apart:
`OwnNames` (no user's port begins with another's: `reassembleFile` counts by prefix) and `CountsFit` (fewer fragments than `fragmentCount` has values).

* `FilesAreWhole` (`AssembledWhole`) holds if each source sends one file, whatever is lost, repeated and reordered (`OneFileEach`), or
  if users wait and nothing is lost or repeated (`Reliable`). With neither, what is left of one file is taken for the next: that is the violated run.
  The inductive invariant `FileInv` has the command between its first and last fragment (`CommandInv`), each
  datagram and each fragment being a piece of the file its source sends now (`PacketInv`, `TmpInv`), and a receiver that copies
  having all fragments from `next` on in `/tmp` and those before in the final file (`CopyInv`).
* `NothingIsLeft` (`NothingLeftBehind`) needs `Reliable`. `ReliableInv` adds to `FileInv` that nothing is there twice (`Once`)
  and that everything sent is somewhere until the file is closed (`Account`): on its way or in `/tmp`, being assembled, or finished with.
* `DeliveryImplemented`: each step of `FileTransfer` is a step of `FileDelivery` or a stutter, `Delivery!Safety`. That is the safety part of
  `FilesAreDelivered`; the leads-to stays with TLC. It excludes empty files (`NoneEmpty`), of which no fragment is sent.

**`PacketProofs`.** For any `DataSize` and any contents: `RoundTrip` (`Fields(Serialize(p))` is `p` with the CRC of its
content, and passes `VerifyCRC`) and `RelayedUnchanged` (`Serialize` of it is the same datagram). The argument goes along
the layout: where each field begins in a concatenation (`Behind`, `FoundAt`), that turning a word round twice changes nothing
(`SwappedTwice`), and that the CRC is some word of four bytes (`CrcType`).

`ShortBurstsAreFound`: a datagram that differs from the one sent in up to four neighbouring bytes of header and data, or in the CRC
alone, does not pass `VerifyCRC`, whatever the bits. The argument has no polynomials. A shift of the register can be undone, since
bit 31 of the polynomial is 1 and the shift brings in a 0: that bit tells what was shifted out (`ShiftBack`). So if two registers agree after a byte, they agree before
it, from eight bits higher on if the bytes differ (`ByteBack`). Registers that agree at the end of the content therefore agree behind the burst
(`AddByteInjective`); before it they agree because the bytes do; and four bytes back from behind it nothing is left that can differ (`FourBytes`). Finally `FieldsOfWire`:
`deserialize` leaves no byte of a datagram out of its fields, so that what changed is seen by the check.

**`MessagingProofs`.** For any processes, arguments, names, texts, damages and number of faults: `TypeCorrect`,
`NameMeansOneRun` (`SameRecipient`), `DamageStaysContained` (`DamageIsContained`), and
`UndamagedIsGenuine`: until a datagram is damaged `Genuine` holds and no receiver thread throws. With damage of any kind `Genuine` depends on what the CRC
detects. `ShortDamageIsGenuine` proves it with all faults for damage that is `IsShort`, in four neighbouring bytes of the content or in the CRC,
as that of the run is; by `DetectedInv` each datagram is then a message or one that the check rejects.
`ShortBurstsAreDetected` (`BurstsAreDetected`) takes `ShortBurstsAreFound` to the datagrams of messages; its hypothesis `ShortBursts` is
that every burst of the constant is short. The run has in addition bursts that straddle content and CRC. `AnyOrderIsRead` (`AnyOrderStarts`) needs `EachOptionOnce`: of an option given twice the last value counts, so order then matters.
The inductive invariant of the others adds to `TypeOK`:

* `CommandInv`: between findNode and sending, the target is the first of its name in a list that only grows at its end;
* `SentInv`: each message went to the first of its name as the list is *now*, which makes the targets of two
  messages equal without comparing them when they are sent;
* `UndamagedInv`: without damage each datagram is what `Serialize` made of a message in `sent`, on its way to the relay or
  the target, so that `RoundTrip` and `RelayedUnchanged` say what a receiver finds in it;
* `DamageInv`: counts the damaged datagrams under way and the processes they have ended; a relay does not
  multiply them.

**`RegistryExchangeProofs`.** For any payloads, number of calls, backlog and number of restarts: `TypeCorrect`, `Implements`
(`ServiceImplemented`) and `AcknowledgedAreListed` (`AcknowledgedIsListed`). `RegistryService` has no temporal part, so that it is
enough that each step is one of its steps or a stutter (`Refines`); the refinement mapping is the identity on the list, the requests, the
payloads, the replies and the results. It needs `LinkInv`, which relates the places of caller, connection and handler:

* `CallerInv`, `HandlerInv`: a handler that has not processed its call finds it in `requests` and without a reply; one that has is out
  of it. Without them `Process` could be a second effect of the same call;
* `BacklogInv`: a call waits in the backlog at most once and then has no handler, so that `Accept` gives it its only one.

`AckInv` adds for `AcknowledgedIsListed` what holds at the registry: the reply to a request that was read with its body is given together with the entry (`RegisteredInv`), a caller is
told success only after a reply (`ResultInv`), and the first run of the registry begins without replies (`FirstRunInv`).

**`PythonTransferProofs`.** For any network of satellites, files and failures: `TypeCorrect` and `SavedIsWhole` (`SavedWhole`). The list of chunks received
holds numbers of the file, each at most once (`ReceivingInv`); as many different numbers as the file has chunks are all of them
(`FS_Injection`), in whatever order and however often they came. `PathInv` and `DomainsInv` are for the types.

**Only model-checked.** Liveness (`RouteTerminates`, `EveryNodeGetsAnEntry`, `PositionsConverge`, `QuitEndsWithTraffic`, `Arrives`, `Returns`,
`HandlersEnd`, `Settles`, `Delivered`) and the leads-to in `FilesAreDelivered`: fairness is a statement about ENABLED, which the prover cannot expand.
Bursts that straddle content and CRC, and the three properties that are violated.

## Where code and documents disagree

Each of the first three is a run that TLC must find violated; `PROJECT.json`, "findings", quotes the lines.

1. `nextHop` holds the *last* relay of a path, its comment says the next node (`routing_next_hop`). Since a relay
   sends on to the target itself, a packet takes two links where the table computed three or more.
2. `q` does not end a process that receives nothing (`directory_quit`).
3. Fragments left by a lost datagram are counted for the next file (`file_transfer_missing`).

The models show more, for which there is no run:

* A node that has left stays in the lists of the others: `AddNode` of `Directory`, like the code, never removes one.
* A process is killed by `route` of an empty list if its first list request failed: `RunsUntilQuit` fails in `Directory`
  with the fault "failure". The same happens without a fault to a process that quits before its first list was handled.
* The received file is longer than the one that was sent, unless its size is a multiple of the buffer
  (`ReadFragment` of `FileTransfer`; `byteCount` in `Node.cpp:237` is not used).
* A node can be found before it has a next hop (`ReadBeyondNextHop` is enabled after `EndPush` and `FindNode`).
* Between `resize` and reset a process that is the first of its own list may send a packet to itself (`NoSelfRelay` fails without
  its exception); it relays it then as any other would.
* A registration whose headers the registry reads before the body has come is refused, and its caller told that it succeeded
  (`NetworkManager.cpp:160` returns true for every reply).
* A satellite that was killed and started again is listed twice, and its position in the lists of others alternates
  between the two entries (`PositionsConverge` with `SameName` and the fault "kill"); messages go on to
  the old port (`SameRecipient`).
* A single damaged datagram ends a process, since nothing catches the exception of `deserialize`.
* The CRC is sent with its most significant byte first, while its register takes the least significant one first. So a burst of four bytes
  that straddles content and CRC can pass: inverting 0x61 and 0xd8 in the last two bytes of the data and 0xf4 and 0xee in the first two of the
  CRC does, for any packet. No document promises otherwise, and bursts within either part are always found
  (`ShortBurstsAreFound`).
* At end of input the last command is executed again without end (`RepeatCommand`).
* Twelve arguments in which an option is given twice start a node with port 0 or without a name.

Smaller ones: `README.md` starts `registry_server` with an address and a port, with which it prints its usage and ends;
the README lists the actions register, deregister and list, while there is an update too; a comment in `main.cpp` says
every 2 seconds where `UPDATE_INTERVAL` is 3; `route`'s caller logs "No path to target found" for a
next hop that `getNextHop` never returns for a node with an entry.

## Not modelled

* `CryptoManager`: no packet is encrypted; the public key is an opaque field. `Logger`, `Utility`: output.
* Texts longer than `MAX_BUFFER_SIZE` (undefined, see above); the commands `list` and `help`, which only print.
* HTTP: a request is its action and its arguments; headers, lengths and status lines are left out.
* Functions nobody calls: `simulateSignalDelay`, `extractMessage`, `getSatelliteNodes`, `removeNode`; and
  `NexusRegistryServer::stop`, called by the destructor only, which is reached when `start` has failed.
* Files of 65536 fragments or more: `Numbers` wraps them in `FileTransfer`, no instance is that large.
* A file that does not exist: its size becomes -1, and what follows is unspecified.
* Delays (`simulateSignalDelay` and sleeps): actions take any time.
* Of the Python prototype: position broadcasts, which only decide which satellite is the nearest (any one in the model);
  text messages, which take the way of a chunk; packets that a single `read(4096)` does not get whole; `file_id`s that
  collide. A chunk that comes again after its file is complete starts an entry of
  `receiving_files` that stays for ever; the model has it, no property is about it.
* The build files, `runme.sh` (source of names and ports) and `debug.cpp`.

## Plan

Done: routing, directory, file transfer, packets and messages, the exchange with the registry, and the transfer of a file in the
Python prototype; every invariant and action property of the passing runs is stated by a theorem. Left, in order of importance:

1. **`Directory`**: an abstract specification of membership that it implements without faults, as `RegistryService` is for one call.
2. **`Messaging`**: an abstract specification of what the `message` command promises, which it implements with faults.
