------------------------------ MODULE Messaging ------------------------------
(***************************************************************************)
(* Text messages: the commands a user enters, sendMessage, the datagrams,  *)
(* and the receiver threads of the target and of the relays.               *)
(*                                                                         *)
(*  - A process is one run of ./nexus (module Directory has its life); an  *)
(*    entry of a local node list stands for the run that registered it.    *)
(*  - The table's answer to a lookup is what module Routing allows of it   *)
(*    while route() runs: any node of the list, or the sender itself.      *)
(*  - "sent" and "printed" are histories; a datagram carries the number of *)
(*    its message only for the properties.                                 *)
(***************************************************************************)
EXTENDS Packet, CommandLine, FiniteSets

CONSTANTS
    Proc,         \* the runs of ./nexus
    Args,         \* Proc -> the arguments it was started with
    InetPton,     \* dotted addresses -> four bytes
    Senders,      \* those whose users send messages
    Listed,       \* bound: those whose entries the senders learn
    Names,        \* the names users enter
    Texts,        \* what users enter as messages; none is longer than the data
    Garbage,      \* what uninitialised fragment fields may hold
    Damages,      \* positions of a datagram -> the bits that change there
    Bursts,       \* the same, for the property of the CRC alone
    MaxCommands,  \* bound: how many message commands a user enters
    MaxMessages,  \* bound: no command is repeated after so many messages
    MaxFaults     \* bound: how many of the kinds of fault happen, once each

(* The port in network order: its lower 16 bits.                           *)
Htons(port) == <<ByteOf((port \div 256) % 256), ByteOf(port % 256)>>

NameOf == [p \in Proc |-> Given(Args[p], "-name")]
AddrOf == [p \in Proc |-> [ip |-> InetPton[Given(Args[p], "-ip")],
                           port |-> Htons(Number[Given(Args[p], "-port")])]]

Address == [ip : Word(4), port : Word(2)]
FaultKinds == {"loss", "copy", "damage", "eof", "kill"}

ASSUME MessagingAssumption ==
    /\ \A p \in Proc : Args[p] \in Seq(STRING) /\ ExitCode(Args[p]) = 0
    /\ Senders \subseteq Proc
    /\ Listed \subseteq Proc
    /\ AddrOf \in [Proc -> Address]
    /\ \A p, q \in Proc : AddrOf[p] = AddrOf[q] => p = q
    /\ Names \subseteq STRING
    /\ \A t \in Texts : \E n \in 0 .. DataSize : t \in Word(n)
    /\ Garbage \subseteq Word(2)
    /\ \A d \in Damages \cup Bursts :
          d \in [DOMAIN d -> Byte] /\ DOMAIN d \subseteq 1 .. WireSize
    /\ MaxCommands \in Nat /\ MaxMessages \in Nat
    /\ MaxFaults \in Nat

VARIABLES
    place,     \* where the main thread of each process is
    known,     \* the local node list, as the runs its entries are of
    input,     \* the command the user has entered last, how many there
               \* were, and whether there may be more
    target,    \* the entry that sendMessage found
    network,   \* datagrams on their way
    sent,      \* history: the messages sent
    printed,   \* history: what receivers have printed
    faults     \* the kinds of fault that have happened

vars == <<place, known, input, target, network, sent, printed, faults>>
userVars == <<input, target, sent>>

Command == [name : STRING, text : Texts]
NoCommand == [name |-> "", text |-> <<>>]
Wires == Word(WireSize)
Datagrams == [wire : Wires, to : Address, id : Nat, copy : {0, 1}]
Running(p) == place[p] \in {"prompt", "found"}

TypeOK ==
    /\ place \in [Proc -> {"prompt", "found", "ended", "aborted"}]
    /\ known \in [Proc -> Seq(Proc)]
    /\ input \in [Proc -> [open : BOOLEAN, number : 0 .. MaxCommands,
                           command : Command \cup {NoCommand}]]
    /\ target \in [Proc -> Proc]
    /\ network \subseteq Datagrams
    /\ sent \in Seq([from : Proc, to : Proc, hop : Proc, command : Command])
    /\ printed \subseteq [by : Proc, ip : Word(4), data : Word(DataSize),
                          id : Nat, copy : {0, 1}]
    /\ faults \subseteq FaultKinds

Init ==
    /\ place = [p \in Proc |-> "prompt"]
    /\ known = [p \in Proc |-> <<>>]
    /\ input = [p \in Proc |-> [open |-> TRUE, number |-> 0, command |-> NoCommand]]
    /\ target = [p \in Proc |-> p]
    /\ network = {}
    /\ sent = <<>>
    /\ printed = {}
    /\ faults = {}

FaultHappens(kind) ==
    /\ kind \notin faults
    /\ Cardinality(faults) < MaxFaults
    /\ faults' = faults \cup {kind}
-----------------------------------------------------------------------------
(* The processes and their node lists.                                     *)

(* A round of the fetch thread has added the entry of another run.         *)
Learn(p, q) ==
    /\ p \in Senders
    /\ q \in Listed
    /\ Running(p)
    /\ \A i \in DOMAIN known[p] : known[p][i] # q
    /\ known' = [known EXCEPT ![p] = Append(@, q)]
    /\ UNCHANGED <<place, userVars, network, printed, faults>>

Kill(p) ==
    /\ FaultHappens("kill")
    /\ Running(p)
    /\ place' = [place EXCEPT ![p] = "ended"]
    /\ UNCHANGED <<known, userVars, network, printed>>
-----------------------------------------------------------------------------
(* The input thread.                                                       *)

Knows(p, name) == \E i \in DOMAIN known[p] : NameOf[known[p][i]] = name

(* findNode(targetName)                                                    *)
LastOfName(p, q, name) ==   \* mutant: the newest entry
    \E i \in DOMAIN known[p] :
        /\ known[p][i] = q /\ NameOf[q] = name
        /\ \A k \in (i + 1) .. Len(known[p]) : NameOf[known[p][k]] # name

FirstOfName(p, q, name) ==
    \E i \in DOMAIN known[p] :
        /\ known[p][i] = q /\ NameOf[q] = name
        /\ \A k \in 1 .. (i - 1) : NameOf[known[p][k]] # name

(* A message command up to findNode.  An empty text and an unknown name    *)
(* are errors after which the user is asked for the next command.          *)
Execute(p, c) ==
    IF c.text # <<>> /\ Knows(p, c.name)
    THEN /\ place' = [place EXCEPT ![p] = "found"]
         /\ \E q \in Proc : /\ FirstOfName(p, q, c.name)
                            /\ target' = [target EXCEPT ![p] = q]
    ELSE UNCHANGED <<place, target>>

EnterMessage(p, c) ==
    /\ place[p] = "prompt"
    /\ input[p].open
    /\ input[p].number < MaxCommands
    /\ input' = [input EXCEPT ![p].command = c, ![p].number = @ + 1]
    /\ Execute(p, c)
    /\ UNCHANGED <<known, network, sent, printed, faults>>

InputEnds(p) ==
    /\ FaultHappens("eof")
    /\ p \in Senders
    /\ place[p] = "prompt"
    /\ input[p].open
    /\ input' = [input EXCEPT ![p].open = FALSE]
    /\ UNCHANGED <<place, known, target, network, sent, printed>>

(***************************************************************************)
(* Nothing can be read any more: the variables of handleInput keep what    *)
(* they hold, and the last command is executed again.                      *)
(***************************************************************************)
RepeatCommand(p) ==
    /\ place[p] = "prompt"
    /\ ~input[p].open
    /\ Len(sent) < MaxMessages
    /\ Execute(p, input[p].command)
    /\ UNCHANGED <<known, input, network, sent, printed, faults>>

(***************************************************************************)
(* The nodes that getNextHop may name for an entry: a relay, the entry     *)
(* itself, another one (an index read behind the vector), or the sender    *)
(* (nodes[0], for an entry that resize has just filled with zero).         *)
(***************************************************************************)
Hops(p) == {p} \cup Range(known[p])

\* mutant: one zero too many
PaddedByOneMore(text) == text \o Zeros(DataSize + 1 - Len(text))

(* The text, followed by the zeros that the constructor has put there.     *)
Padded(text) == text \o Zeros(DataSize - Len(text))

TextPacket(p, q, text, garbage) ==
    [NewPacket(AddrOf[p], AddrOf[q], TEXT, garbage) EXCEPT !.data = Padded(text)]

(* The packet goes into a datagram with a CRC of its own.                  *)
SendTo(address, pkt, id, copy) ==
    [wire |-> Serialize(pkt), to |-> address, id |-> id, copy |-> copy]

(* The packet, getNextHop, sendTo.                                         *)
SendMessage(p) ==
    /\ place[p] = "found"
    /\ \E hop \in Hops(p), garbage \in Garbage :
         /\ network' = network \cup
              {SendTo(AddrOf[hop],
                      TextPacket(p, target[p], input[p].command.text, garbage),
                      Len(sent) + 1, 0)}
         /\ sent' = Append(sent,
              [from |-> p, to |-> target[p], hop |-> hop,
               command |-> input[p].command])
    /\ place' = [place EXCEPT ![p] = "prompt"]
    /\ UNCHANGED <<known, input, target, printed, faults>>
-----------------------------------------------------------------------------
(* The receiver thread.                                                    *)

IsForHost(pkt, p) == pkt.tAddress = AddrOf[p].ip   \* mutant: any port of it
IsFor(pkt, p) == pkt.tAddress = AddrOf[p].ip /\ pkt.tPort = AddrOf[p].port

(***************************************************************************)
(* A datagram that fails its CRC makes deserialize throw; the exception    *)
(* leaves the thread, which ends the process.  Any other is printed if it  *)
(* is for this address and not a piece of a file, or else goes on to the   *)
(* address it is for, with a CRC of its own.                               *)
(***************************************************************************)
ReceiveMessage(p) ==
    /\ Running(p)
    /\ UNCHANGED <<known, userVars, faults>>
    /\ \E d \in network :
         LET pkt == Fields(d.wire)
             final == [ip |-> pkt.tAddress, port |-> pkt.tPort]
             text == [by |-> p, ip |-> pkt.sAddress, data |-> pkt.data,
                      id |-> d.id, copy |-> d.copy]
         IN  /\ d.to = AddrOf[p]
             /\ IF VerifyCRC(pkt)
                THEN /\ UNCHANGED place
                     /\ \/ /\ IsFor(pkt, p)
                           /\ printed' = IF pkt.type = FILE THEN printed
                                         ELSE printed \cup {text}
                           /\ network' = network \ {d}
                        \/ /\ ~IsFor(pkt, p)
                           /\ network' = (network \ {d})
                                           \cup {SendTo(final, pkt, d.id, d.copy)}
                           /\ UNCHANGED printed
                ELSE /\ place' = [place EXCEPT ![p] = "aborted"]
                     /\ network' = network \ {d}
                     /\ UNCHANGED printed
-----------------------------------------------------------------------------
(* The network.                                                            *)

(* Nobody is bound to the address.                                         *)
Unreachable ==
    /\ \E d \in network : /\ \A p \in Proc : Running(p) => d.to # AddrOf[p]
                          /\ network' = network \ {d}
    /\ UNCHANGED <<place, known, userVars, printed, faults>>

Lose ==
    /\ FaultHappens("loss")
    /\ \E d \in network : network' = network \ {d}
    /\ UNCHANGED <<place, known, userVars, printed>>

Duplicate ==
    /\ FaultHappens("copy")
    /\ \E d \in network :
         network' = network \cup {[d EXCEPT !.copy = 1]}
    /\ UNCHANGED <<place, known, userVars, printed>>

Damaged(wire, damage) ==
    [k \in DOMAIN wire |->
       IF k \in DOMAIN damage THEN Xor(wire[k], damage[k]) ELSE wire[k]]

Damage ==
    /\ FaultHappens("damage")
    /\ \E d \in network, damage \in Damages :
         network' = (network \ {d}) \cup {[d EXCEPT !.wire = Damaged(@, damage)]}
    /\ UNCHANGED <<place, known, userVars, printed>>
-----------------------------------------------------------------------------
User(p) == \/ Kill(p)
           \/ InputEnds(p)
           \/ p \in Senders /\ \E c \in [name : Names, text : Texts] :
                                 EnterMessage(p, c)

InputThread(p) == RepeatCommand(p) \/ SendMessage(p)

Next ==
    \/ \E p \in Proc : \/ User(p)
                       \/ InputThread(p)
                       \/ ReceiveMessage(p)
                       \/ \E q \in Proc : Learn(p, q)
    \/ Unreachable
    \/ Lose
    \/ Duplicate
    \/ Damage

(***************************************************************************)
(* The threads run on, and the receiver takes what has arrived.  Users,    *)
(* list replies and the faults of the network owe nothing.                 *)
(***************************************************************************)
Fairness == \A p \in Proc : WF_vars(InputThread(p)) /\ WF_vars(ReceiveMessage(p))

Spec == Init /\ [][Next]_vars /\ Fairness
-----------------------------------------------------------------------------
(* Properties.                                                             *)

(***************************************************************************)
(* Genuine: whatever a receiver prints was entered by the user of another  *)
(* process for a node of its name, unchanged, and went to the run that the *)
(* sender had found first under that name; no relay prints it, and damage  *)
(* on the first or the second way never gets through a relay's new CRC.    *)
(***************************************************************************)
Genuine ==
    \A m \in printed :
        LET s == sent[m.id]
        IN  /\ m.by = s.to
            /\ NameOf[m.by] = s.command.name
            /\ m.data = Padded(s.command.text)
            /\ m.ip = AddrOf[s.from].ip

(***************************************************************************)
(* SameRecipient: all messages of a process to one name go to one run, the  *)
(* first it learnt of, even when that has ended and another one has the    *)
(* name since.                                                             *)
(***************************************************************************)
SameRecipient ==
    \A i, j \in DOMAIN sent :
        /\ sent[i].from = sent[j].from
        /\ sent[i].command.name = sent[j].command.name
        => sent[i].to = sent[j].to

(***************************************************************************)
(* BurstsAreDetected: none of the bursts of changed bits, wherever it hits *)
(* the header, the text or the CRC, gets a datagram with a message on its  *)
(* way past the check of its receiver.                                     *)
(***************************************************************************)
TextWires ==
    {Serialize(TextPacket(p, q, text, garbage)) :
       p \in Senders, q \in Proc, text \in Texts, garbage \in Garbage}
Unprotected ==
    {wire \in TextWires : \E burst \in Bursts : VerifyCRC(Fields(Damaged(wire, burst)))}

BurstsAreDetected == \A d \in network : d.wire \notin Unprotected

(***************************************************************************)
(* AnyOrderStarts: a process that runs would have been started, with the   *)
(* same values, had its options been given in any other order.             *)
(***************************************************************************)
Reordered(argv, order) ==
    [k \in 1 .. 12 |-> IF k % 2 = 1 THEN Option(argv, order[(k + 1) \div 2])
                                    ELSE Value(argv, order[k \div 2])]
Orders == Bijection(1 .. 6, 1 .. 6)
Misread ==
    {p \in Proc : \E order \in Orders :
       LET argv == Reordered(Args[p], order)
       IN  \/ ExitCode(argv) # 0
           \/ \E option \in Options : Given(argv, option) # Given(Args[p], option)}

AnyOrderStarts == \A p \in Proc : Running(p) => p \notin Misread

(***************************************************************************)
(* DamageIsContained: a process is ended only by a damaged datagram, and   *)
(* each of those ends at most the one that receives it.                    *)
(***************************************************************************)
DamageIsContained ==
    Cardinality({p \in Proc : place[p] = "aborted"})
      <= Cardinality(IF "damage" \in faults THEN faults \cap {"damage", "copy"} ELSE {})

(***************************************************************************)
(* Arrives: a message that was sent is printed by the run whose entry the  *)
(* sender has found, unless that run or the relay does not go on running,  *)
(* or a datagram was lost or damaged.                                      *)
(***************************************************************************)
Arrived(i) == \E m \in printed : m.id = i /\ m.by = sent[i].to
Hindered(i) ==
    \/ faults \cap {"loss", "damage"} # {}
    \/ ~Running(sent[i].to)
    \/ ~Running(sent[i].hop)
Sent(i) == i \in DOMAIN sent

Arrives ==
    \A i \in 1 .. MaxMessages :
        Sent(i) ~> (Sent(i) /\ (Arrived(i) \/ Hindered(i)))
=============================================================================
