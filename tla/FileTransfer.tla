---------------------------- MODULE FileTransfer ----------------------------
(***************************************************************************)
(* A file on its way: sendFile cuts it into fragments, each is a datagram  *)
(* that goes to the target or to a relay, and the receiver thread of the   *)
(* target stores it in /tmp and tries to put the file together.            *)
(*                                                                         *)
(*  - The registry address is 127.0.0.1, so all nodes are on one host and  *)
(*    share /tmp, where a fragment is named after its source and its       *)
(*    number, whatever file it belongs to and whoever receives it.         *)
(*  - Datagrams are lost, duplicated and reordered; nothing is repeated or *)
(*    acknowledged.                                                        *)
(*  - A file is a sequence of chunks, of which FragmentSize go into one    *)
(*    fragment; chunks are all that is told apart of its contents.         *)
(***************************************************************************)
EXTENDS Integers, SequencesExt

CONSTANTS
    Node,           \* the processes
    Relays,         \* those that getNextHop may name for a target
    Transfer,       \* the files that users send; each once
    SourceOf,       \* Transfer -> Node
    TargetOf,       \* Transfer -> Node
    Size,           \* Transfer -> how many chunks
    FragmentSize,   \* MAX_BUFFER_SIZE, in chunks
    Numbers,        \* 2^16: fragmentNumber and fragmentCount are uint16_t
    SamePrefix,     \* Node -> those whose fragments' names start like its own
    NoTransfer,     \* not a transfer
    Partial,        \* not a file
    Hasty,          \* a user may send a file before the last one has settled
    MaxLosses,      \* bound: datagrams that are lost
    MaxCopies       \* bound: datagrams that are duplicated

ASSUME TransferAssumption ==
    /\ Relays \subseteq Node
    /\ SourceOf \in [Transfer -> Node]
    /\ TargetOf \in [Transfer -> Node]
    /\ Size \in [Transfer -> Nat]
    /\ FragmentSize \in Nat \ {0}
    /\ Numbers \in Nat \ {0}
    /\ SamePrefix \in [Node -> SUBSET Node]
    /\ \A s \in Node : s \in SamePrefix[s]
    /\ NoTransfer \notin Transfer
    /\ Hasty \in BOOLEAN
    /\ MaxLosses \in Nat /\ MaxCopies \in Nat

VARIABLES
    command,   \* the "file" command each user has entered last
    issued,    \* the transfers that were started
    network,   \* datagrams on their way
    receiver,  \* the receiver thread of each process
    tmp,       \* fragments in /tmp
    final,     \* /tmp/final_<source>
    losses,    \* how many datagrams were lost
    copies     \* how many were duplicated

vars == <<command, issued, network, receiver, tmp, final, losses, copies>>

Chunk == (Transfer \cup {NoTransfer}) \X Nat
Junk == <<NoTransfer, 0>>        \* memory that was never written
FragmentData == [1 .. FragmentSize -> Chunk]

File(t) == [k \in 1 .. Size[t] |-> <<t, k>>]

(* ceil(file_size / MAX_BUFFER_SIZE)                                       *)
FragCount(t) == (Size[t] + FragmentSize - 1) \div FragmentSize

Packet == [source : Node, target : Node, number : Nat, count : Nat,
           data : FragmentData]
Datagram == [packet : Packet, to : Node, copy : Nat]
Command == [transfer : Transfer \cup {NoTransfer}, next : Nat,
            buffer : FragmentData]

Idle == [stage |-> "idle"]
Writing(p) == [stage |-> "write", packet |-> p]
Counting(p) == [stage |-> "count", packet |-> p]
Copying(p, total, i, good) ==
    [stage |-> "copy", packet |-> p, total |-> total, next |-> i, good |-> good]

TypeOK ==
    /\ command \in [Node -> Command]
    /\ issued \subseteq Transfer
    /\ network \subseteq Datagram
    /\ receiver \in [Node ->
         {Idle} \cup [stage : {"write", "count"}, packet : Packet]
                \cup [stage : {"copy"}, packet : Packet, total : Nat,
                      next : Nat, good : BOOLEAN]]
    /\ tmp \subseteq [source : Node, number : Nat, data : FragmentData]
    /\ final \in [Node -> Seq(Chunk)]
    /\ losses \in 0 .. MaxLosses
    /\ copies \in 0 .. MaxCopies

Blank == [k \in 1 .. FragmentSize |-> Junk]

Init ==
    /\ command = [s \in Node |->
                    [transfer |-> NoTransfer, next |-> 1, buffer |-> Blank]]
    /\ issued = {}
    /\ network = {}
    /\ receiver = [n \in Node |-> Idle]
    /\ tmp = {}
    /\ final = [s \in Node |-> <<>>]
    /\ losses = 0
    /\ copies = 0
-----------------------------------------------------------------------------
(* The input thread of the source.                                         *)

Sending(s) ==
    /\ command[s].transfer # NoTransfer
    /\ command[s].next <= FragCount(command[s].transfer)

Handling(n, s) == receiver[n].stage # "idle" /\ receiver[n].packet.source = s

(* No datagram of s is on its way or in the hands of a receiver.           *)
Settled(s) ==
    /\ ~Sending(s)
    /\ \A d \in network : d.packet.source # s
    /\ \A n \in Node : ~Handling(n, s)

SendFile(s, t) ==
    /\ SourceOf[t] = s
    /\ t \notin issued
    /\ ~Sending(s)
    /\ Hasty \/ Settled(s)
    /\ command' = [command EXCEPT ![s] =
                     [transfer |-> t, next |-> 1, buffer |-> Blank]]
    /\ issued' = issued \cup {t}
    /\ UNCHANGED <<network, receiver, tmp, final, losses, copies>>

\* mutant: the buffer shrinks to what was read
ReadNoMore(t, n, buffer) ==
    [k \in {i \in 1 .. FragmentSize : (n - 1) * FragmentSize + i <= Size[t]} |->
       <<t, (n - 1) * FragmentSize + k>>]

(***************************************************************************)
(* The buffer after fragment n of t was read into it: the end of the file  *)
(* overwrites the beginning of it only.                                    *)
(***************************************************************************)
ReadFragment(t, n, buffer) ==
    [k \in 1 .. FragmentSize |->
       LET offset == (n - 1) * FragmentSize + k
       IN  IF offset <= Size[t] THEN <<t, offset>> ELSE buffer[k]]

(* The fragment goes to whatever node getNextHop names at that moment.     *)
SendFragment(s) ==
    /\ Sending(s)
    /\ LET t == command[s].transfer
           n == command[s].next
           data == ReadFragment(t, n, command[s].buffer)
           packet == [source |-> s, target |-> TargetOf[t],
                      number |-> n % Numbers, count |-> FragCount(t) % Numbers,
                      data |-> data]
       IN  /\ \E hop \in (Relays \cup {TargetOf[t]}) \ {s} :
                network' = network \cup {[packet |-> packet, to |-> hop, copy |-> 0]}
           /\ command' = [command EXCEPT ![s] =
                            [transfer |-> t, next |-> n + 1, buffer |-> data]]
    /\ UNCHANGED <<issued, receiver, tmp, final, losses, copies>>
-----------------------------------------------------------------------------
(* The network.                                                            *)

Lose ==
    /\ losses < MaxLosses
    /\ \E d \in network : network' = network \ {d}
    /\ losses' = losses + 1
    /\ UNCHANGED <<command, issued, receiver, tmp, final, copies>>

Duplicate ==
    /\ copies < MaxCopies
    /\ copies' = copies + 1
    /\ \E d \in network : network' = network \cup {[d EXCEPT !.copy = copies']}
    /\ UNCHANGED <<command, issued, receiver, tmp, final, losses>>
-----------------------------------------------------------------------------
(* The receiver thread.                                                    *)

(* receiveMessage, for another node: on to the target.                     *)
Forward(n) ==
    /\ receiver[n] = Idle
    /\ \E d \in network :
         /\ d.to = n
         /\ d.packet.target # n
         /\ network' = (network \ {d}) \cup {[d EXCEPT !.to = d.packet.target]}
    /\ UNCHANGED <<command, issued, receiver, tmp, final, losses, copies>>

(* receiveMessage, for this node.                                          *)
Receive(n) ==
    /\ receiver[n] = Idle
    /\ \E d \in network :
         /\ d.to = n
         /\ d.packet.target = n
         /\ network' = network \ {d}
         /\ receiver' = [receiver EXCEPT ![n] = Writing(d.packet)]
    /\ UNCHANGED <<command, issued, tmp, final, losses, copies>>

Fragments(source, number) ==
    {f \in tmp : f.source = source /\ f.number = number}

WriteToFile(n) ==
    /\ receiver[n].stage = "write"
    /\ LET p == receiver[n].packet
       IN  /\ tmp' = (tmp \ Fragments(p.source, p.number))
                       \cup {[source |-> p.source, number |-> p.number,
                              data |-> p.data]}
           /\ receiver' = [receiver EXCEPT ![n] = Counting(p)]
    /\ UNCHANGED <<command, issued, network, final, losses, copies>>

\* mutant: one fragment may be missing
IsCompleteButOne(p, total) == total >= p.count - 1

IsComplete(p, total) == total = p.count

(***************************************************************************)
(* reassembleFile counts the files whose names start with the prefix of    *)
(* the source; unless there are as many as the packet says, that is all.   *)
(***************************************************************************)
CountFragments(n) ==
    /\ receiver[n].stage = "count"
    /\ LET p == receiver[n].packet
           total == Cardinality({f \in tmp : f.source \in SamePrefix[p.source]})
       IN  IF IsComplete(p, total)
           THEN /\ receiver' = [receiver EXCEPT ![n] = Copying(p, total, 1, TRUE)]
                /\ final' = [final EXCEPT ![p.source] = <<>>]
           ELSE /\ receiver' = [receiver EXCEPT ![n] = Idle]
                /\ UNCHANGED final
    /\ UNCHANGED <<command, issued, network, tmp, losses, copies>>

\* mutants: the fragments stay in /tmp; the last fragment is not copied
KeepFragment(p, i) == UNCHANGED tmp
CopiedButLast(r) == r.next >= r.total

RemoveFragment(p, i) == tmp' = tmp \ Fragments(p.source, i)
Copied(r) == r.next > r.total

(***************************************************************************)
(* Fragment i goes to the output and is removed.  One that is not there    *)
(* leaves the output stream failed, so that all later ones are removed     *)
(* without being copied.                                                   *)
(***************************************************************************)
CopyFragment(n) ==
    /\ receiver[n].stage = "copy"
    /\ ~Copied(receiver[n])
    /\ LET r == receiver[n]
           p == r.packet
           found == {f.data : f \in Fragments(p.source, r.next)}
       IN  /\ IF r.good /\ found # {}
              THEN \E data \in found :
                     final' = [final EXCEPT ![p.source] = @ \o data]
              ELSE UNCHANGED final
           /\ receiver' = [receiver EXCEPT ![n] =
                 Copying(p, r.total, r.next + 1, r.good /\ found # {})]
           /\ RemoveFragment(p, r.next)
    /\ UNCHANGED <<command, issued, network, losses, copies>>

CloseFile(n) ==
    /\ receiver[n].stage = "copy"
    /\ Copied(receiver[n])
    /\ receiver' = [receiver EXCEPT ![n] = Idle]
    /\ UNCHANGED <<command, issued, network, tmp, final, losses, copies>>
-----------------------------------------------------------------------------
ReceiverThread(n) ==
    \/ Forward(n)
    \/ Receive(n)
    \/ WriteToFile(n)
    \/ CountFragments(n)
    \/ CopyFragment(n)
    \/ CloseFile(n)

Next ==
    \/ \E s \in Node : SendFragment(s) \/ \E t \in Transfer : SendFile(s, t)
    \/ \E n \in Node : ReceiverThread(n)
    \/ Lose
    \/ Duplicate

(***************************************************************************)
(* sendFile and the receiver threads run on, and a datagram that is not    *)
(* lost is received.  Users and the faults of the network owe nothing.     *)
(***************************************************************************)
Fairness == \A n \in Node : WF_vars(SendFragment(n)) /\ WF_vars(ReceiverThread(n))

Spec == Init /\ [][Next]_vars /\ Fairness
-----------------------------------------------------------------------------
(* Properties.                                                             *)

Assembling(s) == \E n \in Node : receiver[n].stage = "copy" /\ Handling(n, s)

Phase(s) == IF Settled(s) THEN "settled"
            ELSE IF Assembling(s) THEN "arriving" ELSE "travelling"

Delivery == INSTANCE FileDelivery WITH
    Source <- Node,
    Content <- [t \in Transfer |-> File(t)],
    current <- [s \in Node |-> command[s].transfer],
    phase <- [s \in Node |-> Phase(s)],
    inbox <- [s \in Node |-> IF Assembling(s) THEN Partial ELSE final[s]]

(***************************************************************************)
(* FilesAreDelivered: without loss and duplication, and for users who wait *)
(* for one file to settle before they send the next, every file that is    *)
(* sent arrives whole, in whatever order its fragments do, whichever way   *)
(* each of them goes and whoever else receives files on the host.          *)
(***************************************************************************)
FilesAreDelivered == Delivery!Spec

(***************************************************************************)
(* NothingLeftBehind: when all files have settled no fragment is in /tmp,  *)
(* where it would be counted for the next file of its source.              *)
(***************************************************************************)
NothingLeftBehind == (\A s \in Node : Settled(s)) => tmp = {}

(* The file that a packet or a fragment is from.                           *)
FileOf(p) == p.data[1][1]

(***************************************************************************)
(* AssembledWhole: a final file, once closed, begins with all of the file  *)
(* that its last fragment belongs to.  With one file per source this holds *)
(* though datagrams are lost and duplicated: nothing is assembled then, or *)
(* the same is assembled again.                                            *)
(***************************************************************************)
AssembledWhole ==
    [][\A n \in Node : CloseFile(n) =>
         LET p == receiver[n].packet
         IN  IsPrefix(File(FileOf(p)), final[p.source])]_vars

(***************************************************************************)
(* NoFragmentMissing: the warning of reassembleFile says when fragments    *)
(* are missing, so none is when it goes on: every fragment still to be     *)
(* copied is in /tmp and is a fragment of this file.                       *)
(***************************************************************************)
NoFragmentMissing ==
    \A n \in Node : receiver[n].stage = "copy" =>
        LET p == receiver[n].packet
        IN  \A i \in receiver[n].next .. p.count :
              \E f \in Fragments(p.source, i) : FileOf(f) = FileOf(p)
=============================================================================
