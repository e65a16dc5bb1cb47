--------------------------- MODULE MessagingProofs ---------------------------
(***************************************************************************)
(* What is proved of Messaging, for any processes, arguments, names,       *)
(* texts, size of the data, damage and number of faults.                   *)
(***************************************************************************)
EXTENDS Messaging, PacketProofs, FiniteSetTheorems

-----------------------------------------------------------------------------
(* The data.                                                               *)

(* The texts of users fit the data of a packet.                            *)
LEMMA PaddedType ==
    ASSUME NEW text \in Texts
    PROVE  Padded(text) \in Word(DataSize)
<1>1. PICK n \in 0 .. DataSize : text \in Word(n)
  BY MessagingAssumption
<1>2. n \in Nat /\ DataSize - n \in Nat /\ n + (DataSize - n) = DataSize
  BY PacketAssumption
<1>3. Len(text) = n
  BY <1>1, <1>2, WordIsSeq
<1> DEFINE z == Zeros(DataSize - n)
           k == DataSize - n
<1>4. z \in Word(k)
  BY DEF Zeros, Word, Byte
<1>5. Padded(text) = text \o z
  BY <1>3 DEF Padded
<1> HIDE DEF z, k
<1>6. k \in Nat
  BY <1>2 DEF k
<1>7. text \o z \in Word(n + k)
  BY <1>1, <1>2, <1>4, <1>6, Behind, Zenon
<1> QED
  BY <1>2, <1>5, <1>7 DEF k

(* What sendMessage fills in are fields of a packet.                       *)
LEMMA TextPacketType ==
    ASSUME NEW p \in Proc, NEW q \in Proc, NEW text \in Texts,
           NEW garbage \in Garbage
    PROVE  /\ TextPacket(p, q, text, garbage) \in PacketFields
           /\ TextPacket(p, q, text, garbage).sAddress = AddrOf[p].ip
           /\ TextPacket(p, q, text, garbage).tAddress = AddrOf[q].ip
           /\ TextPacket(p, q, text, garbage).tPort = AddrOf[q].port
           /\ TextPacket(p, q, text, garbage).data = Padded(text)
<1>1. Padded(text) \in Word(DataSize)
  BY PaddedType
<1>2. AddrOf[p] \in Address /\ AddrOf[q] \in Address /\ garbage \in Word(2)
  BY MessagingAssumption
<1>3. Zeros(4) \in Word(4) /\ PKT_VERSION \in Byte /\ TEXT \in Byte
  BY DEF Zeros, Word, Byte, PKT_VERSION, TEXT
<1>4. Zeros(DataSize) \in Word(DataSize)
  BY DEF Zeros, Word, Byte
<1> DEFINE new == NewPacket(AddrOf[p], AddrOf[q], TEXT, garbage)
<1>5. new \in PacketFields /\ new.sAddress = AddrOf[p].ip
        /\ new.tAddress = AddrOf[q].ip /\ new.tPort = AddrOf[q].port
  BY <1>2, <1>3, <1>4 DEF NewPacket, PacketFields, Address
<1>6. TextPacket(p, q, text, garbage) = [new EXCEPT !.data = Padded(text)]
  BY DEF TextPacket
<1> HIDE DEF new
<1> QED
  BY <1>1, <1>5, <1>6 DEF PacketFields

(* getNextHop names a process of the network.                              *)
LEMMA HopsType ==
    ASSUME TypeOK, NEW p \in Proc, NEW hop \in Hops(p)
    PROVE  hop \in Proc
<1>1. known[p] \in Seq(Proc)
  BY DEF TypeOK
<1>2. ASSUME NEW i \in DOMAIN known[p]
      PROVE  known[p][i] \in Proc
  BY <1>1, ElementOfSeq, LenProperties
<1> QED
  BY <1>2 DEF Hops, Range

(* What arrives as a datagram of the right length has fields.              *)
LEMMA FieldsType ==
    ASSUME NEW wire \in Wires
    PROVE  Fields(wire) \in PacketFields
BY FieldsOfWire DEF Wires

(* Changed bits leave the length of a datagram as it is.                   *)
LEMMA DamagedType ==
    ASSUME NEW wire \in Wires, NEW damage \in Damages \cup Bursts
    PROVE  Damaged(wire, damage) \in Wires
<1>1. damage \in [DOMAIN damage -> Byte]
  BY MessagingAssumption
<1>2. wire \in [1 .. WireSize -> Byte]
  BY DEF Wires, Word
<1>3. ASSUME NEW a \in Byte, NEW b \in Byte
      PROVE  Xor(a, b) \in Byte
  BY DEF Xor, Byte
<1>4. \A k \in 1 .. WireSize :
        (IF k \in DOMAIN damage THEN Xor(wire[k], damage[k]) ELSE wire[k]) \in Byte
  BY <1>1, <1>2, <1>3
<1> QED
  BY <1>2, <1>4 DEF Damaged, Wires, Word
-----------------------------------------------------------------------------
(* The invariants.                                                         *)

(* The command that is executed, or will be again, was entered; the entry  *)
(* found for it is the first of its name.                                  *)
CommandInv ==
    \A p \in Proc :
        place[p] = "found" =>
              /\ input[p].command \in Command
              /\ FirstOfName(p, target[p], input[p].command.name)

(* A message went to the first entry of its name.                          *)
SentInv ==
    \A i \in DOMAIN sent :
        FirstOfName(sent[i].from, sent[i].to, sent[i].command.name)

(* Without damage, every datagram is what sendMessage made of its message, *)
(* what was printed is what was sent, and no process has been ended by it. *)
IsMessage(d) ==
    /\ d.id \in DOMAIN sent
    /\ \E garbage \in Garbage :
          d.wire = Serialize(TextPacket(sent[d.id].from, sent[d.id].to,
                                        sent[d.id].command.text, garbage))

IsWhatWasSent(m) ==
    /\ m.id \in DOMAIN sent
    /\ m.by = sent[m.id].to
    /\ m.data = Padded(sent[m.id].command.text)
    /\ m.ip = AddrOf[sent[m.id].from].ip

UndamagedInv ==
    "damage" \notin faults =>
        /\ \A d \in network : IsMessage(d)
        /\ \A m \in printed : IsWhatWasSent(m)
        /\ \A p \in Proc : place[p] # "aborted"

(* The processes that a datagram has ended, the datagrams that would end   *)
(* one, and how many of them one damage and one copy can account for.      *)
Aborted == {p \in Proc : place[p] = "aborted"}
IsBad(wire) == ~VerifyCRC(Fields(wire))
Bad == {d \in network : IsBad(d.wire)}

Allowed == IF "damage" \in faults THEN IF "copy" \in faults THEN 2 ELSE 1 ELSE 0

DamageInv ==
    /\ IsFiniteSet(Aborted)
    /\ IsFiniteSet(Bad)
    /\ Cardinality(Aborted) + Cardinality(Bad) <= Allowed

Inv ==
    /\ TypeOK
    /\ CommandInv
    /\ SentInv
    /\ UndamagedInv
    /\ DamageInv
-----------------------------------------------------------------------------
(* Types.                                                                  *)

(* What sendTo makes of a packet is a datagram.                            *)
LEMMA SendToType ==
    ASSUME NEW address \in Address, NEW pkt \in PacketFields,
           NEW id \in Nat, NEW copy \in {0, 1}
    PROVE  SendTo(address, pkt, id, copy) \in Datagrams
  BY SerializeType DEF SendTo, Datagrams, Wires

(* A fault adds its kind to the faults.                                    *)
LEMMA FaultType ==
    ASSUME TypeOK, NEW kind \in FaultKinds, FaultHappens(kind)
    PROVE  faults' \subseteq FaultKinds
  BY DEF TypeOK, FaultHappens

(* findNode leads to sendMessage only for a command of its user.           *)
LEMMA ExecuteStep ==
    ASSUME TypeOK, NEW p \in Proc, NEW c \in Command \cup {NoCommand},
           Execute(p, c)
    PROVE  /\ place' \in [Proc -> {"prompt", "found", "ended", "aborted"}]
           /\ target' \in [Proc -> Proc]
           /\ \A q \in Proc : q # p => place'[q] = place[q] /\ target'[q] = target[q]
           /\ place'[p] = place[p] \/ place'[p] = "found"
           /\ place'[p] # place[p] =>
                 c \in Command /\ FirstOfName(p, target'[p], c.name)
<1>1. CASE c.text # <<>> /\ Knows(p, c.name)
  <2>1. c \in Command
    <3>1. NoCommand.text = <<>>
      BY DEF NoCommand
    <3> QED
      BY <1>1, <3>1
  <2>2. PICK q \in Proc : /\ FirstOfName(p, q, c.name)
                          /\ target' = [target EXCEPT ![p] = q]
    BY <1>1 DEF Execute
  <2>3. place' = [place EXCEPT ![p] = "found"]
    BY <1>1 DEF Execute
  <2>4. target'[p] = q
    BY <2>2 DEF TypeOK
  <2> QED
    BY <2>1, <2>2, <2>3, <2>4 DEF TypeOK
<1>2. CASE ~(c.text # <<>> /\ Knows(p, c.name))
  BY <1>2 DEF Execute, TypeOK
<1> QED
  BY <1>1, <1>2

(* Every step keeps the types.                                             *)
LEMMA TypeStep ==
    ASSUME TypeOK, CommandInv, [Next]_vars
    PROVE  TypeOK'
<1> USE DEF userVars
<1>1. ASSUME NEW p \in Proc, NEW q \in Proc, Learn(p, q)
      PROVE  TypeOK'
  <2>1. Append(known[p], q) \in Seq(Proc)
    BY DEF TypeOK
  <2>2. known' \in [Proc -> Seq(Proc)]
    BY <1>1, <2>1 DEF Learn, TypeOK
  <2> QED
    BY <1>1, <2>2 DEF Learn, TypeOK
<1>2. ASSUME NEW p \in Proc, Kill(p)
      PROVE  TypeOK'
  <2>1. faults' \subseteq FaultKinds
    BY <1>2, FaultType DEF Kill, FaultKinds
  <2> QED
    BY <1>2, <2>1 DEF Kill, TypeOK
<1>3. ASSUME NEW p \in Proc, InputEnds(p)
      PROVE  TypeOK'
  <2>1. faults' \subseteq FaultKinds
    BY <1>3, FaultType DEF InputEnds, FaultKinds
  <2>2. input' \in [Proc -> [open : BOOLEAN, number : 0 .. MaxCommands,
                             command : Command \cup {NoCommand}]]
    BY <1>3 DEF InputEnds, TypeOK
  <2> QED
    BY <1>3, <2>1, <2>2 DEF InputEnds, TypeOK
<1>4. ASSUME NEW p \in Proc, NEW c \in [name : Names, text : Texts],
             EnterMessage(p, c)
      PROVE  TypeOK'
  <2>1. c \in Command
    BY MessagingAssumption DEF Command
  <2>2. input[p].number + 1 \in 0 .. MaxCommands
    BY <1>4, MessagingAssumption DEF EnterMessage, TypeOK
  <2>3. input' \in [Proc -> [open : BOOLEAN, number : 0 .. MaxCommands,
                             command : Command \cup {NoCommand}]]
    BY <1>4, <2>1, <2>2 DEF EnterMessage, TypeOK
  <2>4. /\ place' \in [Proc -> {"prompt", "found", "ended", "aborted"}]
        /\ target' \in [Proc -> Proc]
    BY <1>4, <2>1, ExecuteStep DEF EnterMessage
  <2> QED
    BY <1>4, <2>3, <2>4 DEF EnterMessage, TypeOK
<1>5. ASSUME NEW p \in Proc, RepeatCommand(p)
      PROVE  TypeOK'
  <2>1. input[p].command \in Command \cup {NoCommand}
    BY DEF TypeOK
  <2>2. /\ place' \in [Proc -> {"prompt", "found", "ended", "aborted"}]
        /\ target' \in [Proc -> Proc]
    BY <1>5, <2>1, ExecuteStep DEF RepeatCommand
  <2> QED
    BY <1>5, <2>2 DEF RepeatCommand, TypeOK
<1>6. ASSUME NEW p \in Proc, SendMessage(p)
      PROVE  TypeOK'
  <2> DEFINE c == input[p].command
  <2>1. c \in Command /\ target[p] \in Proc
    BY <1>6 DEF SendMessage, CommandInv, TypeOK
  <2>2. PICK hop \in Hops(p), garbage \in Garbage :
          /\ network' = network \cup
               {SendTo(AddrOf[hop], TextPacket(p, target[p], c.text, garbage),
                       Len(sent) + 1, 0)}
          /\ sent' = Append(sent,
               [from |-> p, to |-> target[p], hop |-> hop, command |-> c])
    BY <1>6 DEF SendMessage
  <2>3. hop \in Proc /\ AddrOf[hop] \in Address
    BY <2>1, HopsType, MessagingAssumption
  <2>4. Len(sent) + 1 \in Nat
    BY DEF TypeOK
  <2>5. TextPacket(p, target[p], c.text, garbage) \in PacketFields
    BY <2>1, TextPacketType DEF Command
  <2>6. network' \subseteq Datagrams
    BY <2>2, <2>3, <2>4, <2>5, SendToType DEF TypeOK
  <2>7. sent' \in Seq([from : Proc, to : Proc, hop : Proc, command : Command])
    BY <2>1, <2>2, <2>3 DEF TypeOK
  <2>8. place' \in [Proc -> {"prompt", "found", "ended", "aborted"}]
    BY <1>6 DEF SendMessage, TypeOK
  <2> QED
    BY <1>6, <2>6, <2>7, <2>8 DEF SendMessage, TypeOK
<1>7. ASSUME NEW p \in Proc, ReceiveMessage(p)
      PROVE  TypeOK'
  <2>1. PICK d \in network :
          LET pkt == Fields(d.wire)
              final == [ip |-> pkt.tAddress, port |-> pkt.tPort]
              text == [by |-> p, ip |-> pkt.sAddress, data |-> pkt.data,
                       id |-> d.id, copy |-> d.copy]
          IN  \/ /\ place' = [place EXCEPT ![p] = "aborted"]
                 /\ network' = network \ {d}
                 /\ UNCHANGED printed
              \/ /\ printed' = printed \/ printed' = printed \cup {text}
                 /\ network' = network \ {d}
                 /\ UNCHANGED place
              \/ /\ network' = (network \ {d})
                                 \cup {SendTo(final, pkt, d.id, d.copy)}
                 /\ UNCHANGED <<place, printed>>
    BY <1>7 DEF ReceiveMessage
  <2>2. d.wire \in Wires /\ d.id \in Nat /\ d.copy \in {0, 1}
    BY DEF TypeOK, Datagrams
  <2>3. Fields(d.wire) \in PacketFields
    BY <2>2, FieldsType
  <2> DEFINE pkt == Fields(d.wire)
             final == [ip |-> pkt.tAddress, port |-> pkt.tPort]
             text == [by |-> p, ip |-> pkt.sAddress, data |-> pkt.data,
                      id |-> d.id, copy |-> d.copy]
  <2>4. final \in Address
    BY <2>3 DEF PacketFields, Address
  <2>5. text \in [by : Proc, ip : Word(4), data : Word(DataSize),
                  id : Nat, copy : {0, 1}]
    BY <2>2, <2>3 DEF PacketFields
  <2>6. SendTo(final, pkt, d.id, d.copy) \in Datagrams
    BY <2>2, <2>3, <2>4, SendToType
  <2> HIDE DEF text, final, pkt
  <2>7. /\ place' \in [Proc -> {"prompt", "found", "ended", "aborted"}]
        /\ network' \subseteq Datagrams
        /\ printed' \subseteq [by : Proc, ip : Word(4), data : Word(DataSize),
                                id : Nat, copy : {0, 1}]
    BY <2>1, <2>5, <2>6 DEF TypeOK, text, final, pkt
  <2> QED
    BY <1>7, <2>7 DEF ReceiveMessage, TypeOK
<1>8. ASSUME Unreachable
      PROVE  TypeOK'
  BY <1>8 DEF Unreachable, TypeOK
<1>9. ASSUME Lose
      PROVE  TypeOK'
  <2>1. faults' \subseteq FaultKinds
    BY <1>9, FaultType DEF Lose, FaultKinds
  <2> QED
    BY <1>9, <2>1 DEF Lose, TypeOK
<1>10. ASSUME Duplicate
       PROVE  TypeOK'
  <2>1. faults' \subseteq FaultKinds
    BY <1>10, FaultType DEF Duplicate, FaultKinds
  <2>2. \A d \in network : [d EXCEPT !.copy = 1] \in Datagrams
    BY DEF TypeOK, Datagrams
  <2>3. network' \subseteq Datagrams
    BY <1>10, <2>2 DEF Duplicate, TypeOK
  <2> QED
    BY <1>10, <2>1, <2>3 DEF Duplicate, TypeOK
<1>11. ASSUME Damage
       PROVE  TypeOK'
  <2>1. faults' \subseteq FaultKinds
    BY <1>11, FaultType DEF Damage, FaultKinds
  <2>2. ASSUME NEW d \in network, NEW damage \in Damages
        PROVE  [d EXCEPT !.wire = Damaged(@, damage)] \in Datagrams
    <3>1. d \in Datagrams
      BY DEF TypeOK
    <3>2. Damaged(d.wire, damage) \in Wires
      BY <3>1, DamagedType DEF Datagrams
    <3> QED
      BY <3>1, <3>2 DEF Datagrams
  <2>3. network' \subseteq Datagrams
    BY <1>11, <2>2 DEF Damage, TypeOK
  <2> QED
    BY <1>11, <2>1, <2>3 DEF Damage, TypeOK
<1>12. CASE UNCHANGED vars
  BY <1>12 DEF vars, TypeOK
<1> QED
  BY <1>1, <1>2, <1>3, <1>4, <1>5, <1>6, <1>7, <1>8, <1>9, <1>10, <1>11, <1>12
  DEF Next, User, InputThread
-----------------------------------------------------------------------------
(* Commands and what is found for them.                                    *)

(* Node lists grow at the end only.                                        *)
LEMMA KnownGrows ==
    ASSUME TypeOK, [Next]_vars, NEW p \in Proc
    PROVE  /\ DOMAIN known[p] = 1 .. Len(known[p])
           /\ DOMAIN known[p] \subseteq DOMAIN known'[p]
           /\ \A i \in DOMAIN known[p] : known'[p][i] = known[p][i]
<1>1. known[p] \in Seq(Proc)
  BY DEF TypeOK
<1>2. DOMAIN known[p] = 1 .. Len(known[p])
  BY <1>1, LenProperties
<1>3. ASSUME NEW p1 \in Proc, NEW q \in Proc, Learn(p1, q)
      PROVE  /\ DOMAIN known[p] \subseteq DOMAIN known'[p]
             /\ \A i \in DOMAIN known[p] : known'[p][i] = known[p][i]
  <2>1. CASE p1 = p
    <3>1. known'[p] = Append(known[p], q)
      BY <1>3, <2>1 DEF Learn, TypeOK
    <3> QED
      BY <1>1, <3>1
  <2>2. CASE p1 # p
    BY <1>3, <2>2 DEF Learn, TypeOK
  <2> QED
    BY <2>1, <2>2
<1>4. CASE UNCHANGED known
  BY <1>4
<1>5. UNCHANGED known \/ (\E p1, q \in Proc : Learn(p1, q))
  BY DEF Next, vars, userVars, User, InputThread, Kill, InputEnds, EnterMessage,
         RepeatCommand, SendMessage, ReceiveMessage, Unreachable, Lose,
         Duplicate, Damage
<1> QED
  BY <1>2, <1>3, <1>4, <1>5

(* The first entry of a name stays the first.                              *)
LEMMA FirstStays ==
    ASSUME TypeOK, [Next]_vars, NEW p \in Proc, NEW q \in Proc, NEW name,
           FirstOfName(p, q, name)
    PROVE  FirstOfName(p, q, name)'
<1>1. PICK i \in DOMAIN known[p] :
        /\ known[p][i] = q /\ NameOf[q] = name
        /\ \A k \in 1 .. (i - 1) : NameOf[known[p][k]] # name
  BY DEF FirstOfName
<1>2. /\ DOMAIN known[p] = 1 .. Len(known[p])
      /\ DOMAIN known[p] \subseteq DOMAIN known'[p]
      /\ \A k \in DOMAIN known[p] : known'[p][k] = known[p][k]
      /\ Len(known[p]) \in Nat
  BY KnownGrows, LenProperties DEF TypeOK
<1>3. i \in DOMAIN known'[p] /\ known'[p][i] = q
  BY <1>1, <1>2
<1>4. ASSUME NEW k \in 1 .. (i - 1)
      PROVE  NameOf[known'[p][k]] # name
  <2>1. k \in DOMAIN known[p]
    BY <1>1, <1>2
  <2> QED
    BY <1>1, <1>2, <2>1
<1> QED
  BY <1>1, <1>3, <1>4 DEF FirstOfName

(* There is only one.                                                      *)
LEMMA FirstIsUnique ==
    ASSUME TypeOK, NEW p \in Proc, NEW q \in Proc, NEW r \in Proc, NEW name,
           FirstOfName(p, q, name), FirstOfName(p, r, name)
    PROVE  q = r
<1>1. PICK i \in DOMAIN known[p] :
        /\ known[p][i] = q /\ NameOf[q] = name
        /\ \A k \in 1 .. (i - 1) : NameOf[known[p][k]] # name
  BY DEF FirstOfName
<1>2. PICK j \in DOMAIN known[p] :
        /\ known[p][j] = r /\ NameOf[r] = name
        /\ \A k \in 1 .. (j - 1) : NameOf[known[p][k]] # name
  BY DEF FirstOfName
<1>3. DOMAIN known[p] = 1 .. Len(known[p]) /\ Len(known[p]) \in Nat
  BY LenProperties DEF TypeOK
<1>4. CASE i < j
  BY <1>1, <1>2, <1>3, <1>4
<1>5. CASE j < i
  BY <1>1, <1>2, <1>3, <1>5
<1>6. CASE i = j
  BY <1>1, <1>2, <1>6
<1> QED
  BY <1>3, <1>4, <1>5, <1>6

(* Where a process's user enters nothing and its input thread rests, the   *)
(* command keeps what was found for it.                                    *)
LEMMA CommandStays ==
    ASSUME TypeOK, CommandInv, [Next]_vars, NEW p \in Proc,
           input'[p].command = input[p].command,
           target'[p] = target[p],
           place'[p] = "found" => place[p] = "found"
    PROVE  place'[p] = "found" =>
                 /\ input'[p].command \in Command
                 /\ FirstOfName(p, target[p], input[p].command.name)'
<1>1. CASE place'[p] = "found"
  <2>1. /\ input[p].command \in Command
        /\ FirstOfName(p, target[p], input[p].command.name)
    BY <1>1 DEF CommandInv
  <2>2. PICK q \in Proc : q = target[p]
    BY DEF TypeOK
  <2>3. PICK name : name = input[p].command.name
    OBVIOUS
  <2>4. FirstOfName(p, q, name)'
    BY <2>1, <2>2, <2>3, FirstStays
  <2>5. FirstOfName(p, target[p], input[p].command.name)'
    BY <2>2, <2>3, <2>4 DEF FirstOfName
  <2> QED
    BY <2>1, <2>5
<1> QED
  BY <1>1 DEF CommandInv

(* Every step keeps the commands and what was found for them.              *)
LEMMA CommandStep ==
    ASSUME TypeOK, CommandInv, [Next]_vars, TypeOK'
    PROVE  CommandInv'
<1> USE DEF userVars
<1> SUFFICES ASSUME NEW p \in Proc
             PROVE  place'[p] = "found" =>
                          /\ input'[p].command \in Command
                          /\ FirstOfName(p, target[p], input[p].command.name)'
  BY DEF CommandInv
<1> DEFINE Stays == /\ input'[p].command = input[p].command
                    /\ target'[p] = target[p]
                    /\ place'[p] = "found" => place[p] = "found"
<1>1. CASE Stays
  BY <1>1, CommandStays
<1>2. ASSUME NEW c \in Command \cup {NoCommand}, Execute(p, c), UNCHANGED known,
             place[p] = "prompt", input'[p].command = c
      PROVE  place'[p] = "found" =>
                /\ input'[p].command \in Command
                /\ FirstOfName(p, target[p], input[p].command.name)'
  <2>1. CASE place'[p] = "found"
    <3>1. c \in Command /\ FirstOfName(p, target'[p], c.name)
      BY <1>2, <2>1, ExecuteStep
    <3>2. FirstOfName(p, target[p], input[p].command.name)'
      BY <1>2, <3>1 DEF FirstOfName
    <3> QED
      BY <1>2, <3>1, <3>2
  <2> QED
    BY <2>1
<1>3. ASSUME NEW q \in Proc, NEW c \in [name : Names, text : Texts],
             EnterMessage(q, c)
      PROVE  Stays \/ q = p
  BY <1>3, ExecuteStep, MessagingAssumption DEF EnterMessage, Command, TypeOK
<1> DEFINE Keeps == place'[p] = "found" =>
                          /\ input'[p].command \in Command
                          /\ FirstOfName(p, target[p], input[p].command.name)'
<1>4. ASSUME NEW c \in [name : Names, text : Texts], EnterMessage(p, c)
      PROVE  Keeps
  <2>1. c \in Command
    BY MessagingAssumption DEF Command
  <2>2. input'[p].command = c
    BY <1>4 DEF EnterMessage, TypeOK
  <2>3. Execute(p, c) /\ UNCHANGED known /\ place[p] = "prompt"
    BY <1>4 DEF EnterMessage
  <2> QED
    BY <1>2, <2>1, <2>2, <2>3
<1>5. ASSUME NEW q \in Proc, RepeatCommand(q)
      PROVE  Keeps
  <2>1. input[q].command \in Command \cup {NoCommand}
    BY DEF TypeOK
  <2>2. CASE q # p
    <3>1. Stays
      BY <1>5, <2>1, <2>2, ExecuteStep DEF RepeatCommand
    <3> QED
      BY <1>1, <3>1
  <2>3. CASE q = p
    <3>1. input' = input /\ Execute(p, input[p].command) /\ UNCHANGED known
            /\ place[p] = "prompt"
      BY <1>5, <2>3 DEF RepeatCommand
    <3> QED
      BY <1>2, <2>1, <2>3, <3>1
  <2> QED
    BY <2>2, <2>3
<1>6. ASSUME NEW q \in Proc, Kill(q)
      PROVE  Stays
  BY <1>6 DEF Kill, TypeOK
<1>7. ASSUME NEW q \in Proc, InputEnds(q)
      PROVE  Stays
  BY <1>7 DEF InputEnds, TypeOK
<1>8. ASSUME NEW q \in Proc, SendMessage(q)
      PROVE  Stays
  BY <1>8 DEF SendMessage, TypeOK
<1>9. ASSUME NEW q \in Proc, ReceiveMessage(q)
      PROVE  Stays
  <2>1. UNCHANGED userVars
    BY <1>9 DEF ReceiveMessage
  <2>2. place' = place \/ place' = [place EXCEPT ![q] = "aborted"]
    BY <1>9 DEF ReceiveMessage
  <2> QED
    BY <2>1, <2>2 DEF TypeOK
<1>10. ASSUME NEW q \in Proc, NEW r \in Proc, Learn(q, r)
       PROVE  Stays
  BY <1>10 DEF Learn
<1>11. CASE Unreachable \/ Lose \/ Duplicate \/ Damage \/ UNCHANGED vars
  BY <1>1, <1>11 DEF Unreachable, Lose, Duplicate, Damage, vars
<1> HIDE DEF Stays
<1>12. Keeps
  BY <1>1, <1>3, <1>4, <1>5, <1>6, <1>7, <1>8, <1>9, <1>10, <1>11
  DEF Next, User, InputThread
<1> QED
  BY <1>12
-----------------------------------------------------------------------------
(* The messages that were sent.                                            *)

(* What the types say of a message.                                        *)
LEMMA SentType ==
    ASSUME TypeOK, NEW i \in DOMAIN sent
    PROVE  /\ DOMAIN sent = 1 .. Len(sent) /\ Len(sent) \in Nat
           /\ sent[i].from \in Proc /\ sent[i].to \in Proc
           /\ sent[i].command \in Command
<1>1. DOMAIN sent = 1 .. Len(sent) /\ Len(sent) \in Nat
  BY LenProperties DEF TypeOK
<1>2. sent[i] \in [from : Proc, to : Proc, hop : Proc, command : Command]
  BY <1>1, ElementOfSeq DEF TypeOK
<1> QED
  BY <1>1, <1>2

(* A message stays one to the first entry of its name.                     *)
LEMMA SentFirstStays ==
    ASSUME TypeOK, SentInv, [Next]_vars, NEW i \in DOMAIN sent,
           sent'[i] = sent[i]
    PROVE  FirstOfName(sent[i].from, sent[i].to, sent[i].command.name)'
<1>1. PICK f \in Proc, t \in Proc, name \in STRING :
        f = sent[i].from /\ t = sent[i].to /\ name = sent[i].command.name
  BY SentType DEF Command
<1>2. FirstOfName(f, t, name)
  BY <1>1 DEF SentInv
<1>3. FirstOfName(f, t, name)'
  BY <1>2, FirstStays
<1> QED
  BY <1>1, <1>3 DEF FirstOfName

(* The history of messages only grows.                                     *)
LEMMA SentGrows ==
    ASSUME TypeOK, [Next]_vars, NEW i \in DOMAIN sent
    PROVE  i \in DOMAIN sent' /\ sent'[i] = sent[i]
<1>1. CASE sent' = sent
  BY <1>1
<1>2. ASSUME NEW p \in Proc, SendMessage(p)
      PROVE  i \in DOMAIN sent' /\ sent'[i] = sent[i]
  <2>1. PICK m : sent' = Append(sent, m)
    BY <1>2 DEF SendMessage
  <2>2. sent \in Seq([from : Proc, to : Proc, hop : Proc, command : Command])
    BY DEF TypeOK
  <2>3. i \in 1 .. Len(sent) /\ Len(sent) \in Nat
    BY <2>2, LenProperties
  <2> QED
    BY <2>1, <2>2, <2>3
<1>3. sent' = sent \/ (\E p \in Proc : SendMessage(p))
  BY DEF Next, vars, userVars, User, InputThread, Kill, InputEnds, EnterMessage,
         RepeatCommand, Learn, ReceiveMessage, Unreachable, Lose, Duplicate, Damage
<1> QED
  BY <1>1, <1>2, <1>3

(* sendMessage sends to the entry that findNode has found.                 *)
LEMMA MessageSent ==
    ASSUME TypeOK, CommandInv, SentInv, [Next]_vars, NEW p \in Proc, SendMessage(p)
    PROVE  SentInv'
<1>1. PICK n : n = Len(sent) + 1
  OBVIOUS
<1>2. PICK c : c = input[p].command
  OBVIOUS
<1>3. PICK to \in Proc : to = target[p]
  BY DEF TypeOK
<1>4. PICK hop : sent' = Append(sent,
                   [from |-> p, to |-> to, hop |-> hop, command |-> c])
  BY <1>2, <1>3 DEF SendMessage
<1>5. known' = known /\ place[p] = "found"
  BY DEF SendMessage
<1>6. /\ \A i \in DOMAIN sent' : i \in DOMAIN sent \/ i = n
      /\ sent'[n] = [from |-> p, to |-> to, hop |-> hop, command |-> c]
  <2> DEFINE m == [from |-> p, to |-> to, hop |-> hop, command |-> c]
             M == [from : Proc, to : Proc, hop : Proc, command : Command]
  <2>1. sent \in Seq(M) /\ sent' = Append(sent, m)
    BY <1>4 DEF TypeOK
  <2>2. DOMAIN sent = 1 .. Len(sent) /\ Len(sent) \in Nat
    BY <2>1, LenProperties
  <2> HIDE DEF m, M
  <2>3. DOMAIN sent' = 1 .. n /\ sent'[n] = m
    BY <1>1, <2>1, <2>2
  <2> QED
    BY <1>1, <2>2, <2>3 DEF m
<1>7. ASSUME NEW i \in DOMAIN sent
      PROVE  FirstOfName(sent[i].from, sent[i].to, sent[i].command.name)'
  BY SentGrows, SentFirstStays
<1>8. FirstOfName(sent[n].from, sent[n].to, sent[n].command.name)'
  <2>1. FirstOfName(p, to, c.name)
    BY <1>2, <1>3, <1>5 DEF CommandInv
  <2> QED
    BY <1>5, <1>6, <2>1 DEF FirstOfName
<1> QED
  BY <1>6, <1>7, <1>8 DEF SentInv

(* Every step.                                                             *)
LEMMA SentStep ==
    ASSUME TypeOK, CommandInv, SentInv, [Next]_vars
    PROVE  SentInv'
<1>1. CASE sent' = sent
  BY <1>1, SentFirstStays DEF SentInv
<1>2. sent' = sent \/ \E p \in Proc : SendMessage(p)
  BY DEF Next, vars, userVars, User, InputThread, Kill, InputEnds, EnterMessage,
         RepeatCommand, Learn, ReceiveMessage, Unreachable, Lose, Duplicate, Damage
<1> QED
  BY <1>1, <1>2, MessageSent
-----------------------------------------------------------------------------
(* What arrives undamaged.                                                 *)

(* A datagram and a line on the screen stay what they are.                 *)
LEMMA MessageStays ==
    ASSUME TypeOK, [Next]_vars, NEW d, IsMessage(d)
    PROVE  IsMessage(d)'
  BY SentGrows DEF IsMessage

LEMMA PrintedStays ==
    ASSUME TypeOK, [Next]_vars, NEW m, IsWhatWasSent(m)
    PROVE  IsWhatWasSent(m)'
  BY SentGrows DEF IsWhatWasSent

(* What a receiver finds in a datagram that is a message.                  *)
LEMMA MessageFields ==
    ASSUME TypeOK, NEW d, IsMessage(d)
    PROVE  LET pkt == Fields(d.wire)
           IN  /\ VerifyCRC(pkt)
               /\ Serialize(pkt) = d.wire
               /\ pkt.sAddress = AddrOf[sent[d.id].from].ip
               /\ pkt.tAddress = AddrOf[sent[d.id].to].ip
               /\ pkt.tPort = AddrOf[sent[d.id].to].port
               /\ pkt.data = Padded(sent[d.id].command.text)
<1>1. PICK garbage \in Garbage :
        d.wire = Serialize(TextPacket(sent[d.id].from, sent[d.id].to,
                                      sent[d.id].command.text, garbage))
  BY DEF IsMessage
<1> DEFINE tp == TextPacket(sent[d.id].from, sent[d.id].to,
                            sent[d.id].command.text, garbage)
<1>2. /\ tp \in PacketFields
      /\ tp.sAddress = AddrOf[sent[d.id].from].ip
      /\ tp.tAddress = AddrOf[sent[d.id].to].ip
      /\ tp.tPort = AddrOf[sent[d.id].to].port
      /\ tp.data = Padded(sent[d.id].command.text)
  <2>1. /\ sent[d.id].from \in Proc /\ sent[d.id].to \in Proc
        /\ sent[d.id].command.text \in Texts
    BY SentType DEF IsMessage, Command
  <2> QED
    BY <2>1, TextPacketType
<1>3. d.wire = Serialize(tp)
  BY <1>1
<1> HIDE DEF tp
<1>4. /\ Fields(Serialize(tp))
           = [tp EXCEPT !.errorCorrectionCode = CalculateCRC(Content(tp))]
      /\ VerifyCRC(Fields(Serialize(tp)))
  BY <1>2, RoundTrip
<1>5. Serialize(Fields(Serialize(tp))) = Serialize(tp)
  BY <1>2, RelayedUnchanged
<1>6. /\ Fields(d.wire).sAddress = tp.sAddress /\ Fields(d.wire).data = tp.data
      /\ Fields(d.wire).tAddress = tp.tAddress /\ Fields(d.wire).tPort = tp.tPort
  BY <1>2, <1>3, <1>4 DEF PacketFields
<1> QED
  BY <1>2, <1>3, <1>4, <1>5, <1>6

(* The receiver thread, which a datagram ends only if it is bad.           *)
LEMMA Received ==
    ASSUME TypeOK, \A d \in network : IsMessage(d) \/ IsBad(d.wire),
           NEW p \in Proc, ReceiveMessage(p)
    PROVE  /\ \A d \in network' : d \in network \/ IsMessage(d)
           /\ \A m \in printed' : m \in printed \/ IsWhatWasSent(m)
           /\ place' = place \/ \E d \in network : ~IsMessage(d)
<1>1. PICK d \in network :
         LET pkt == Fields(d.wire)
             intact == VerifyCRC(pkt)
             final == [ip |-> pkt.tAddress, port |-> pkt.tPort]
             text == [by |-> p, ip |-> pkt.sAddress, data |-> pkt.data,
                      id |-> d.id, copy |-> d.copy]
         IN  \/ /\ ~intact
                /\ network' = network \ {d}
                /\ UNCHANGED printed
             \/ /\ intact
                /\ IsFor(pkt, p)
                /\ printed' \subseteq printed \cup {text}
                /\ network' = network \ {d}
                /\ UNCHANGED place
             \/ /\ intact
                /\ network' = (network \ {d}) \cup {SendTo(final, pkt, d.id, d.copy)}
                /\ UNCHANGED <<place, printed>>
  BY DEF ReceiveMessage
<1> DEFINE pkt == Fields(d.wire)
           final == [ip |-> pkt.tAddress, port |-> pkt.tPort]
           text == [by |-> p, ip |-> pkt.sAddress, data |-> pkt.data,
                    id |-> d.id, copy |-> d.copy]
<1>2. ASSUME IsMessage(d)
      PROVE  /\ d.id \in DOMAIN sent
             /\ VerifyCRC(pkt)
             /\ Serialize(pkt) = d.wire
             /\ pkt.sAddress = AddrOf[sent[d.id].from].ip
             /\ pkt.tAddress = AddrOf[sent[d.id].to].ip
             /\ pkt.tPort = AddrOf[sent[d.id].to].port
             /\ pkt.data = Padded(sent[d.id].command.text)
  BY <1>2, MessageFields DEF IsMessage
<1>3. VerifyCRC(pkt) => IsMessage(d)
  BY DEF IsBad
<1> HIDE DEF pkt
<1>4. CASE /\ ~VerifyCRC(pkt)
           /\ network' = network \ {d}
           /\ UNCHANGED printed
  BY <1>2, <1>4
<1>5. CASE /\ VerifyCRC(pkt)
           /\ IsFor(pkt, p)
           /\ printed' \subseteq printed \cup {text}
           /\ network' = network \ {d}
           /\ UNCHANGED place
  <2>1. sent[d.id].to = p
    <3>1. sent[d.id].to \in Proc
      BY <1>2, <1>3, <1>5, SentType
    <3>2. AddrOf[sent[d.id].to] \in Address /\ AddrOf[p] \in Address
      BY <3>1, MessagingAssumption
    <3>3. \A a, b \in Address : a.ip = b.ip /\ a.port = b.port => a = b
      BY DEF Address
    <3>4. AddrOf[sent[d.id].to] = AddrOf[p]
      BY <1>2, <1>3, <1>5, <3>2, <3>3 DEF IsFor
    <3> QED
      BY <3>1, <3>4, MessagingAssumption
  <2>2. IsWhatWasSent(text)
    BY <1>2, <1>3, <1>5, <2>1 DEF IsWhatWasSent
  <2> QED
    BY <1>5, <2>2
<1>6. CASE /\ VerifyCRC(pkt)
           /\ network' = (network \ {d}) \cup {SendTo(final, pkt, d.id, d.copy)}
           /\ UNCHANGED <<place, printed>>
  <2>1. IsMessage(SendTo(final, pkt, d.id, d.copy))
    BY <1>2, <1>3, <1>6 DEF IsMessage, SendTo
  <2> QED
    BY <1>6, <2>1
<1> QED
  BY <1>1, <1>4, <1>5, <1>6 DEF pkt

(* The input thread sends messages.                                        *)
LEMMA MessageIsSent ==
    ASSUME TypeOK, NEW p \in Proc, SendMessage(p)
    PROVE  \A d \in network' : d \in network \/ IsMessage(d)'
<1>1. PICK hop \in Hops(p), garbage \in Garbage :
        /\ network' = network \cup
             {SendTo(AddrOf[hop],
                     TextPacket(p, target[p], input[p].command.text, garbage),
                     Len(sent) + 1, 0)}
        /\ sent' = Append(sent,
             [from |-> p, to |-> target[p], hop |-> hop,
              command |-> input[p].command])
  BY DEF SendMessage
<1>2. PICK d : d = SendTo(AddrOf[hop],
                     TextPacket(p, target[p], input[p].command.text, garbage),
                     Len(sent) + 1, 0)
  OBVIOUS
<1>3. /\ d.id = Len(sent) + 1
      /\ d.wire = Serialize(TextPacket(p, target[p], input[p].command.text, garbage))
  BY <1>2 DEF SendTo
<1>4. /\ d.id \in DOMAIN sent'
      /\ sent'[d.id].from = p /\ sent'[d.id].to = target[p]
      /\ sent'[d.id].command = input[p].command
  <2>1. sent \in Seq([from : Proc, to : Proc, hop : Proc, command : Command])
    BY DEF TypeOK
  <2> QED
    BY <1>1, <1>3, <2>1
<1>5. IsMessage(d)'
  BY <1>3, <1>4 DEF IsMessage
<1> QED
  BY <1>1, <1>2, <1>5

(* Every step.                                                             *)
LEMMA UndamagedStep ==
    ASSUME TypeOK, TypeOK', CommandInv, UndamagedInv, [Next]_vars
    PROVE  UndamagedInv'
<1> USE DEF userVars
<1> SUFFICES ASSUME "damage" \notin faults'
             PROVE  /\ \A d \in network' : IsMessage(d)'
                    /\ \A m \in printed' : IsWhatWasSent(m)'
                    /\ \A p \in Proc : place'[p] # "aborted"
  BY DEF UndamagedInv
<1>1. "damage" \notin faults
  BY DEF Next, vars, User, InputThread, Kill, InputEnds, EnterMessage,
         RepeatCommand, SendMessage, Learn, ReceiveMessage, Unreachable, Lose,
         Duplicate, Damage, FaultHappens
<1>2. /\ \A d \in network : IsMessage(d)
      /\ \A m \in printed : IsWhatWasSent(m)
      /\ \A p \in Proc : place[p] # "aborted"
  BY <1>1 DEF UndamagedInv
<1>3. /\ \A d \in network : IsMessage(d)'
      /\ \A m \in printed : IsWhatWasSent(m)'
  BY <1>2, MessageStays, PrintedStays
<1> DEFINE Keeps == /\ network' \subseteq network
                    /\ printed' = printed
                    /\ \A p \in Proc : place'[p] # "aborted"
<1>4. CASE Keeps
  BY <1>3, <1>4
<1>5. ASSUME NEW p \in Proc, NEW q \in Proc, Learn(p, q)
      PROVE  Keeps
  BY <1>2, <1>5 DEF Learn
<1>6. ASSUME NEW p \in Proc, Kill(p)
      PROVE  Keeps
  BY <1>2, <1>6 DEF Kill, TypeOK
<1>7. ASSUME NEW p \in Proc, InputEnds(p)
      PROVE  Keeps
  BY <1>2, <1>7 DEF InputEnds
<1>8. ASSUME NEW p \in Proc, NEW c \in [name : Names, text : Texts],
             EnterMessage(p, c)
      PROVE  Keeps
  <2>1. c \in Command
    BY MessagingAssumption DEF Command
  <2>2. \A q \in Proc : place'[q] = place[q] \/ place'[q] = "found"
    BY <1>8, <2>1, ExecuteStep DEF EnterMessage
  <2> QED
    BY <1>2, <1>8, <2>2 DEF EnterMessage
<1>9. ASSUME NEW p \in Proc, RepeatCommand(p)
      PROVE  Keeps
  <2>1. input[p].command \in Command \cup {NoCommand}
    BY DEF TypeOK
  <2>2. \A q \in Proc : place'[q] = place[q] \/ place'[q] = "found"
    BY <1>9, <2>1, ExecuteStep DEF RepeatCommand
  <2> QED
    BY <1>2, <1>9, <2>2 DEF RepeatCommand
<1>10. CASE Unreachable \/ Lose \/ UNCHANGED vars
  <2>1. Keeps
    BY <1>2, <1>10 DEF Unreachable, Lose, vars
  <2> QED
    BY <1>4, <2>1
<1>11. ASSUME NEW p \in Proc, SendMessage(p)
       PROVE  /\ \A d \in network' : IsMessage(d)'
              /\ \A m \in printed' : IsWhatWasSent(m)'
              /\ \A q \in Proc : place'[q] # "aborted"
  <2>1. printed' = printed /\ (\A q \in Proc : place'[q] # "aborted")
    BY <1>2, <1>11 DEF SendMessage, TypeOK
  <2> QED
    BY <1>3, <1>11, <2>1, MessageIsSent
<1>12. ASSUME NEW p \in Proc, ReceiveMessage(p)
       PROVE  /\ \A d \in network' : IsMessage(d)'
              /\ \A m \in printed' : IsWhatWasSent(m)'
              /\ \A q \in Proc : place'[q] # "aborted"
  <2>1. /\ \A d \in network' : d \in network \/ IsMessage(d)
        /\ \A m \in printed' : m \in printed \/ IsWhatWasSent(m)
        /\ place' = place
    BY <1>2, <1>12, Received
  <2> QED
    BY <1>2, <2>1, MessageStays, PrintedStays
<1>13. CASE Duplicate
  <2>1. PICK d \in network : network' = network \cup {[d EXCEPT !.copy = 1]}
    BY <1>13 DEF Duplicate
  <2>2. PICK e : e = [d EXCEPT !.copy = 1]
    OBVIOUS
  <2>3. e.id = d.id /\ e.wire = d.wire
    BY <2>2 DEF TypeOK, Datagrams
  <2>4. IsMessage(e)'
    <3>1. IsMessage(e)
      BY <1>2, <2>3 DEF IsMessage
    <3> QED
      BY <3>1, MessageStays
  <2> QED
    BY <1>2, <1>3, <1>13, <2>1, <2>2, <2>4 DEF Duplicate
<1>14. CASE Damage
  BY <1>14 DEF Damage, FaultHappens, TypeOK
<1> HIDE DEF Keeps
<1> QED
  BY <1>4, <1>5, <1>6, <1>7, <1>8, <1>9, <1>10, <1>11, <1>12, <1>13, <1>14
  DEF Next, User, InputThread
-----------------------------------------------------------------------------
(* What damage can do.                                                     *)

(* What sendTo sends passes the check.                                     *)
LEMMA SentIsGood ==
    ASSUME NEW pkt \in PacketFields, NEW address, NEW id, NEW copy
    PROVE  ~IsBad(SendTo(address, pkt, id, copy).wire)
  BY RoundTrip DEF IsBad, SendTo

(* A step that makes nothing bad and ends no process.                      *)
LEMMA NothingWorse ==
    ASSUME DamageInv, Aborted' \subseteq Aborted, Bad' \subseteq Bad,
           faults \subseteq faults'
    PROVE  DamageInv'
<1>1. /\ IsFiniteSet(Aborted') /\ IsFiniteSet(Bad')
      /\ Cardinality(Aborted') <= Cardinality(Aborted)
      /\ Cardinality(Bad') <= Cardinality(Bad)
  BY FS_Subset DEF DamageInv
<1>2. /\ Cardinality(Aborted) \in Nat /\ Cardinality(Bad) \in Nat
      /\ Cardinality(Aborted') \in Nat /\ Cardinality(Bad') \in Nat
  BY <1>1, FS_CardinalityType DEF DamageInv
<1>3. Allowed <= Allowed' /\ Allowed \in Nat /\ Allowed' \in Nat
  BY DEF Allowed
<1>4. Cardinality(Aborted') + Cardinality(Bad') <= Allowed'
  BY <1>1, <1>2, <1>3 DEF DamageInv
<1> QED
  BY <1>1, <1>4 DEF DamageInv

(* A datagram that fails the check ends the process that receives it.      *)
LEMMA BadReceived ==
    ASSUME TypeOK, DamageInv, NEW p \in Proc, NEW d \in network,
           IsBad(d.wire), Running(p),
           place' = [place EXCEPT ![p] = "aborted"],
           network' = network \ {d}, faults' = faults
    PROVE  DamageInv'
<1>1. p \notin Aborted /\ Aborted' = Aborted \cup {p}
  BY DEF Aborted, Running, TypeOK
<1>2. d \in Bad /\ Bad' = Bad \ {d}
  BY DEF Bad
<1>3. IsFiniteSet(Aborted') /\ Cardinality(Aborted') = Cardinality(Aborted) + 1
  BY <1>1, FS_AddElement DEF DamageInv
<1>4. IsFiniteSet(Bad') /\ Cardinality(Bad') = Cardinality(Bad) - 1
  BY <1>2, FS_RemoveElement DEF DamageInv
<1>5. Cardinality(Aborted) \in Nat /\ Cardinality(Bad) \in Nat
  BY FS_CardinalityType DEF DamageInv
<1>6. Allowed' = Allowed /\ Allowed \in Nat
  BY DEF Allowed
<1>7. Cardinality(Aborted') + Cardinality(Bad') <= Allowed'
  BY <1>3, <1>4, <1>5, <1>6 DEF DamageInv
<1> QED
  BY <1>3, <1>4, <1>7 DEF DamageInv

(* One datagram more that fails the check, and one more allowed.           *)
LEMMA OneMoreBad ==
    ASSUME DamageInv, NEW e, Aborted' = Aborted, Bad' \subseteq Bad \cup {e},
           Allowed' = Allowed + 1
    PROVE  DamageInv'
<1>1. /\ IsFiniteSet(Bad) /\ Cardinality(Bad) \in Nat /\ Cardinality(Aborted) \in Nat
      /\ Cardinality(Aborted) + Cardinality(Bad) <= Allowed /\ IsFiniteSet(Aborted)
  BY FS_CardinalityType DEF DamageInv
<1>2. PICK more : more = Bad \cup {e}
  OBVIOUS
<1>3. /\ IsFiniteSet(more)
      /\ Cardinality(more) = Cardinality(Bad) \/ Cardinality(more) = Cardinality(Bad) + 1
  <2>1. CASE e \in Bad
    <3>1. more = Bad
      BY <1>2, <2>1
    <3> QED
      BY <1>1, <3>1, Zenon
  <2>2. CASE e \notin Bad
    BY <1>1, <1>2, <2>2, FS_AddElement, Zenon
  <2> QED
    BY <2>1, <2>2
<1>4. IsFiniteSet(Bad') /\ Cardinality(Bad') <= Cardinality(more)
  <2>1. Bad' \subseteq more
    BY <1>2
  <2> QED
    BY <1>3, <2>1, FS_Subset, Zenon
<1>5. Cardinality(Bad') \in Nat /\ Allowed \in Nat
  BY <1>4, FS_CardinalityType DEF Allowed
<1>6. Cardinality(Bad') <= Cardinality(Bad) + 1
  BY <1>1, <1>3, <1>4, <1>5
<1>7. Cardinality(Aborted') + Cardinality(Bad') <= Allowed'
  BY <1>1, <1>5, <1>6
<1> QED
  BY <1>1, <1>4, <1>7 DEF DamageInv

(* Before there is any damage nothing is bad.                              *)
LEMMA NothingBad ==
    ASSUME DamageInv, "damage" \notin faults
    PROVE  Bad = {} /\ Aborted = {}
<1>1. Cardinality(Aborted) \in Nat /\ Cardinality(Bad) \in Nat
  BY FS_CardinalityType DEF DamageInv
<1>2. Cardinality(Aborted) = 0 /\ Cardinality(Bad) = 0
  BY <1>1 DEF DamageInv, Allowed
<1> QED
  BY <1>2, FS_EmptySet DEF DamageInv

(* Every step.                                                             *)
LEMMA DamageStep ==
    ASSUME TypeOK, TypeOK', CommandInv, DamageInv, [Next]_vars
    PROVE  DamageInv'
<1> USE DEF userVars
<1> DEFINE Better == /\ Aborted' \subseteq Aborted /\ Bad' \subseteq Bad
                     /\ faults \subseteq faults'
<1>1. CASE Better
  BY <1>1, NothingWorse
<1>2. ASSUME NEW p \in Proc, NEW q \in Proc, Learn(p, q)
      PROVE  Better
  BY <1>2 DEF Learn, Aborted, Bad
<1>3. ASSUME NEW p \in Proc, Kill(p)
      PROVE  Better
  BY <1>3 DEF Kill, FaultHappens, Aborted, Bad, TypeOK
<1>4. ASSUME NEW p \in Proc, InputEnds(p)
      PROVE  Better
  BY <1>4 DEF InputEnds, FaultHappens, Aborted, Bad
<1>5. ASSUME NEW p \in Proc, NEW c \in [name : Names, text : Texts],
             EnterMessage(p, c)
      PROVE  Better
  <2>1. c \in Command
    BY MessagingAssumption DEF Command
  <2>2. \A q \in Proc : place'[q] = place[q] \/ place'[q] = "found"
    BY <1>5, <2>1, ExecuteStep DEF EnterMessage
  <2> QED
    BY <1>5, <2>2 DEF EnterMessage, Aborted, Bad
<1>6. ASSUME NEW p \in Proc, RepeatCommand(p)
      PROVE  Better
  <2>1. input[p].command \in Command \cup {NoCommand}
    BY DEF TypeOK
  <2>2. \A q \in Proc : place'[q] = place[q] \/ place'[q] = "found"
    BY <1>6, <2>1, ExecuteStep DEF RepeatCommand
  <2> QED
    BY <1>6, <2>2 DEF RepeatCommand, Aborted, Bad
<1>7. ASSUME NEW p \in Proc, SendMessage(p)
      PROVE  Better
  <2>1. PICK hop \in Hops(p), garbage \in Garbage :
          network' = network \cup
               {SendTo(AddrOf[hop],
                       TextPacket(p, target[p], input[p].command.text, garbage),
                       Len(sent) + 1, 0)}
    BY <1>7 DEF SendMessage
  <2>2. PICK pkt : pkt = TextPacket(p, target[p], input[p].command.text, garbage)
    OBVIOUS
  <2>3. pkt \in PacketFields
    <3>1. target[p] \in Proc /\ input[p].command.text \in Texts
      BY <1>7 DEF SendMessage, CommandInv, Command, TypeOK
    <3> QED
      BY <2>2, <3>1, TextPacketType
  <2>4. ~IsBad(SendTo(AddrOf[hop], pkt, Len(sent) + 1, 0).wire)
    BY <2>3, SentIsGood
  <2>5. Bad' \subseteq Bad
    BY <2>1, <2>2, <2>4 DEF Bad
  <2> QED
    BY <1>7, <2>5 DEF SendMessage, Aborted, TypeOK
<1>8. ASSUME NEW p \in Proc, ReceiveMessage(p)
      PROVE  DamageInv'
  <2>1. PICK d \in network :
          LET pkt == Fields(d.wire)
              final == [ip |-> pkt.tAddress, port |-> pkt.tPort]
          IN  \/ /\ IsBad(d.wire)
                 /\ place' = [place EXCEPT ![p] = "aborted"]
                 /\ network' = network \ {d}
              \/ network' = network \ {d} /\ UNCHANGED place
              \/ /\ network' = (network \ {d}) \cup {SendTo(final, pkt, d.id, d.copy)}
                 /\ UNCHANGED place
    BY <1>8 DEF ReceiveMessage, IsBad
  <2>2. PICK pkt : pkt = Fields(d.wire)
    OBVIOUS
  <2>3. pkt \in PacketFields
    BY <2>2, FieldsType DEF TypeOK, Datagrams
  <2>4. PICK address : address = [ip |-> pkt.tAddress, port |-> pkt.tPort]
    OBVIOUS
  <2>5. ~IsBad(SendTo(address, pkt, d.id, d.copy).wire)
    BY <2>3, SentIsGood
  <2>6. Running(p) /\ faults' = faults
    BY <1>8 DEF ReceiveMessage
  <2>7. CASE /\ IsBad(d.wire)
             /\ place' = [place EXCEPT ![p] = "aborted"]
             /\ network' = network \ {d}
    BY <2>6, <2>7, BadReceived
  <2>8. CASE network' = network \ {d} /\ UNCHANGED place
    <3>1. Better
      BY <2>6, <2>8 DEF Aborted, Bad
    <3> QED
      BY <1>1, <3>1
  <2>9. CASE /\ network' = (network \ {d}) \cup {SendTo(address, pkt, d.id, d.copy)}
             /\ UNCHANGED place
    <3>1. Better
      BY <2>5, <2>6, <2>9 DEF Aborted, Bad
    <3> QED
      BY <1>1, <3>1
  <2> QED
    BY <2>1, <2>2, <2>4, <2>7, <2>8, <2>9
<1>9. CASE Unreachable \/ Lose \/ UNCHANGED vars
  <2>1. Better
    BY <1>9 DEF Unreachable, Lose, FaultHappens, Aborted, Bad, vars
  <2> QED
    BY <1>1, <2>1
<1>10. CASE Duplicate
  <2>1. PICK d \in network : network' = network \cup {[d EXCEPT !.copy = 1]}
    BY <1>10 DEF Duplicate
  <2>2. PICK e : e = [d EXCEPT !.copy = 1]
    OBVIOUS
  <2>3. e.wire = d.wire
    BY <2>2 DEF TypeOK, Datagrams
  <2>4. /\ "copy" \notin faults /\ faults' = faults \cup {"copy"}
        /\ Aborted' = Aborted
    BY <1>10 DEF Duplicate, FaultHappens, Aborted
  <2>5. CASE "damage" \in faults
    <3>1. Allowed' = Allowed + 1
      BY <2>4, <2>5 DEF Allowed
    <3>2. Bad' \subseteq Bad \cup {e}
      BY <2>1, <2>2 DEF Bad
    <3> QED
      BY <2>4, <3>1, <3>2, OneMoreBad
  <2>6. CASE "damage" \notin faults
    <3>1. ~IsBad(d.wire)
      BY <2>6, NothingBad DEF Bad
    <3>2. Bad' \subseteq Bad
      BY <2>1, <2>2, <2>3, <3>1 DEF Bad
    <3> QED
      BY <1>1, <2>4, <3>2
  <2> QED
    BY <2>5, <2>6
<1>11. CASE Damage
  <2>1. PICK d \in network, damage \in Damages :
          network' = (network \ {d}) \cup {[d EXCEPT !.wire = Damaged(@, damage)]}
    BY <1>11 DEF Damage
  <2>2. PICK e : e = [d EXCEPT !.wire = Damaged(@, damage)]
    OBVIOUS
  <2>3. /\ "damage" \notin faults /\ faults' = faults \cup {"damage"}
        /\ Aborted' = Aborted
    BY <1>11 DEF Damage, FaultHappens, Aborted
  <2>4. Bad' \subseteq Bad \cup {e}
    BY <2>1, <2>2 DEF Bad
  <2>5. CASE "copy" \notin faults
    <3>1. Allowed' = Allowed + 1
      BY <2>3, <2>5 DEF Allowed
    <3> QED
      BY <2>3, <2>4, <3>1, OneMoreBad
  <2>6. CASE "copy" \in faults
    <3>1. Allowed' = 2
      BY <2>3, <2>6 DEF Allowed
    <3>2. Bad = {} /\ Aborted = {}
      BY <2>3, NothingBad
    <3>3. Bad' \subseteq {e}
      BY <2>4, <3>2
    <3>4. IsFiniteSet({e}) /\ Cardinality({e}) = 1 /\ Cardinality({}) = 0
      BY FS_Singleton, FS_EmptySet
    <3>5. IsFiniteSet(Bad') /\ Cardinality(Bad') <= 1 /\ Cardinality(Bad') \in Nat
      BY <3>3, <3>4, FS_Subset, FS_CardinalityType
    <3>6. IsFiniteSet(Aborted') /\ Cardinality(Aborted') = 0
      BY <2>3, <3>2, <3>4, FS_EmptySet
    <3> QED
      BY <3>1, <3>5, <3>6 DEF DamageInv
  <2> QED
    BY <2>5, <2>6
<1> HIDE DEF Better
<1> QED
  BY <1>1, <1>2, <1>3, <1>4, <1>5, <1>6, <1>7, <1>8, <1>9, <1>10, <1>11
  DEF Next, User, InputThread
-----------------------------------------------------------------------------
(* The theorems.                                                           *)

(* The invariant holds at the start.                                       *)
LEMMA InvInit ==
    ASSUME Init
    PROVE  Inv
<1>1. TypeOK
  <2>1. /\ known \in [Proc -> Seq(Proc)] /\ sent = <<>>
        /\ input \in [Proc -> [open : BOOLEAN, number : 0 .. MaxCommands,
                               command : Command \cup {NoCommand}]]
    BY MessagingAssumption DEF Init
  <2> QED
    BY <2>1 DEF Init, TypeOK
<1>2. CommandInv
  BY DEF Init, CommandInv
<1>3. DOMAIN sent = {}
  BY DEF Init
<1>4. SentInv
  BY <1>3 DEF SentInv
<1>5. UndamagedInv
  BY DEF Init, UndamagedInv
<1>6. DamageInv
  <2>1. Aborted = {} /\ Bad = {}
    BY DEF Init, Aborted, Bad
  <2> QED
    BY <2>1, FS_EmptySet DEF Init, DamageInv, Allowed
<1> QED
  BY <1>1, <1>2, <1>4, <1>5, <1>6 DEF Inv

(* The invariant holds always.                                             *)
LEMMA Invariance == Spec => []Inv
<1>1. Init => Inv
  BY InvInit
<1>2. Inv /\ [Next]_vars => Inv'
  BY TypeStep, CommandStep, SentStep, UndamagedStep, DamageStep DEF Inv
<1> QED
  BY <1>1, <1>2, PTL DEF Spec

(***************************************************************************)
(* TypeCorrect: the threads, the datagrams and the histories keep their    *)
(* types, however messages are relayed and damaged.                        *)
(***************************************************************************)
THEOREM TypeCorrect == Spec => []TypeOK
<1>1. Inv => TypeOK
  BY DEF Inv
<1> QED
  BY <1>1, Invariance, PTL

(***************************************************************************)
(* NameMeansOneRun: whatever is added to a node list while messages are    *)
(* sent, all messages of a process to a name go to one and the same run.   *)
(***************************************************************************)
THEOREM NameMeansOneRun == Spec => []SameRecipient
<1>1. TypeOK /\ SentInv => SameRecipient
  <2> SUFFICES ASSUME TypeOK, SentInv, NEW i \in DOMAIN sent, NEW j \in DOMAIN sent,
                      sent[i].from = sent[j].from,
                      sent[i].command.name = sent[j].command.name
               PROVE  sent[i].to = sent[j].to
    BY DEF SameRecipient
  <2>1. /\ sent[i].from \in Proc /\ sent[i].to \in Proc
        /\ sent[j].to \in Proc
    BY SentType
  <2>2. /\ FirstOfName(sent[i].from, sent[i].to, sent[i].command.name)
        /\ FirstOfName(sent[i].from, sent[j].to, sent[i].command.name)
    BY DEF SentInv
  <2> QED
    BY <2>1, <2>2, FirstIsUnique
<1>2. Inv => SameRecipient
  BY <1>1 DEF Inv
<1> QED
  BY <1>2, Invariance, PTL

(* What was sent is what its user entered for a node of that name.         *)
LEMMA WhatWasSentIsGenuine ==
    ASSUME TypeOK, SentInv, \A m \in printed : IsWhatWasSent(m)
    PROVE  Genuine
<1>1. ASSUME NEW m \in printed
      PROVE  NameOf[m.by] = sent[m.id].command.name
  BY DEF IsWhatWasSent, SentInv, FirstOfName
<1> QED
  BY <1>1 DEF Genuine, IsWhatWasSent

(***************************************************************************)
(* UndamagedIsGenuine: as long as no datagram is damaged, whatever else is *)
(* lost, duplicated, overtaken, relayed or killed, what receivers print is *)
(* what users have sent them, and no receiver thread throws.               *)
(***************************************************************************)
THEOREM UndamagedIsGenuine ==
    Spec => []("damage" \notin faults =>
                  Genuine /\ \A p \in Proc : place[p] # "aborted")
<1>1. ASSUME TypeOK, SentInv, UndamagedInv, "damage" \notin faults
      PROVE  Genuine
  BY <1>1, WhatWasSentIsGenuine DEF UndamagedInv
<1>2. Inv => ("damage" \notin faults =>
                Genuine /\ \A p \in Proc : place[p] # "aborted")
  BY <1>1 DEF Inv, UndamagedInv
<1> QED
  BY <1>2, Invariance, PTL

(***************************************************************************)
(* DamageStaysContained: a receiver thread throws only where a damaged     *)
(* datagram arrives, and one damage, even with its datagram duplicated and *)
(* relayed, ends no more processes than there are copies of it.            *)
(***************************************************************************)
THEOREM DamageStaysContained == Spec => []DamageIsContained
<1>1. ASSUME DamageInv
      PROVE  DamageIsContained
  <2>1. Cardinality(Aborted) \in Nat /\ Cardinality(Bad) \in Nat
    BY <1>1, FS_CardinalityType DEF DamageInv
  <2>2. Cardinality(Aborted) <= Allowed
    BY <1>1, <2>1 DEF DamageInv, Allowed
  <2>3. CASE "damage" \in faults /\ "copy" \in faults
    <3>1. faults \cap {"damage", "copy"} = {"damage"} \cup {"copy"}
      BY <2>3
    <3>2. IsFiniteSet({"damage"}) /\ Cardinality({"damage"}) = 1
      BY FS_Singleton
    <3>3. Cardinality({"damage"} \cup {"copy"}) = 2
      BY <3>2, FS_AddElement
    <3> QED
      BY <2>2, <2>3, <3>1, <3>3 DEF DamageIsContained, Aborted, Allowed
  <2>4. CASE "damage" \in faults /\ "copy" \notin faults
    <3>1. faults \cap {"damage", "copy"} = {"damage"}
      BY <2>4
    <3>2. Cardinality({"damage"}) = 1
      BY FS_Singleton
    <3> QED
      BY <2>2, <2>4, <3>1, <3>2 DEF DamageIsContained, Aborted, Allowed
  <2>5. CASE "damage" \notin faults
    <3>1. Cardinality({}) = 0
      BY FS_EmptySet
    <3> QED
      BY <2>2, <2>5, <3>1 DEF DamageIsContained, Aborted, Allowed
  <2> QED
    BY <2>3, <2>4, <2>5
<1>2. Inv => DamageIsContained
  BY <1>1 DEF Inv
<1> QED
  BY <1>2, Invariance, PTL
-----------------------------------------------------------------------------
(* The order of the options.                                               *)

(* Some pair of a command line comes first, and some comes last.           *)
LEMMA Extremes ==
    ASSUME NEW S \in SUBSET (1 .. 6), S # {}
    PROVE  /\ \E n \in S : \A k \in S : n <= k
           /\ Max(S) \in S
<1>1. \E n \in S : \A k \in S : n <= k
  <2>1. 1 \in S \/ 2 \in S \/ 3 \in S \/ 4 \in S \/ 5 \in S \/ 6 \in S
    <3>1. PICK x : x \in S
      OBVIOUS
    <3>2. x = 1 \/ x = 2 \/ x = 3 \/ x = 4 \/ x = 5 \/ x = 6
      BY <3>1
    <3> QED
      BY <3>1, <3>2
  <2> QED
    BY <2>1
<1>2. \E n \in S : \A k \in S : n >= k
  <2>1. 1 \in S \/ 2 \in S \/ 3 \in S \/ 4 \in S \/ 5 \in S \/ 6 \in S
    <3>1. PICK x : x \in S
      OBVIOUS
    <3>2. x = 1 \/ x = 2 \/ x = 3 \/ x = 4 \/ x = 5 \/ x = 6
      BY <3>1
    <3> QED
      BY <3>1, <3>2
  <2> QED
    BY <2>1
<1> QED
  BY <1>1, <1>2 DEF Max

LEMMA SixPairs ==
    ASSUME NEW argv, Len(argv) = 12
    PROVE  Pairs(argv) = 1 .. 6
BY DEF Pairs

(* The loop of main reads all pairs or none of the arguments count.        *)
LEMMA Accepted ==
    ASSUME NEW argv
    PROVE  ExitCode(argv) = 0
             <=> /\ Len(argv) = 12
                 /\ \A n \in 1 .. 6 : ~IsUnknown(argv, n) /\ ~IsNoNumber(argv, n)
                 /\ FromString(Given(argv, "-node")) # "unknown"
<1> DEFINE bad == {n \in 1 .. 6 : IsUnknown(argv, n) \/ IsNoNumber(argv, n)}
<1>1. CASE Len(argv) # 12
  BY <1>1 DEF ExitCode
<1>2. CASE Len(argv) = 12 /\ bad # {}
  <2>1. PICK n \in bad : \A k \in bad : n <= k
    BY <1>2, Extremes
  <2>2. n \in 1 .. 6 /\ \A k \in 1 .. (n - 1) : k \in 1 .. 6 /\ k \notin bad
    BY <2>1
  <2>3. EndsAt(argv, n)
    BY <2>1, <2>2 DEF EndsAt
  <2>4. ExitCode(argv) # 0
    BY <1>2, <2>1, <2>2, <2>3, SixPairs DEF ExitCode, Uncaught
  <2> QED
    BY <1>2, <2>4
<1>3. CASE Len(argv) = 12 /\ bad = {}
  <2>1. \A n \in Pairs(argv) : ~EndsAt(argv, n)
    BY <1>3, SixPairs DEF EndsAt
  <2> QED
    BY <1>3, <2>1 DEF ExitCode
<1> QED
  BY <1>1, <1>2, <1>3

LEMMA ReorderedPairs ==
    ASSUME NEW argv \in Seq(STRING), Len(argv) = 12, NEW order \in Orders
    PROVE  /\ Len(Reordered(argv, order)) = 12
           /\ \A n \in 1 .. 6 :
                /\ Option(Reordered(argv, order), n) = Option(argv, order[n])
                /\ Value(Reordered(argv, order), n) = Value(argv, order[n])
<1> DEFINE other == Reordered(argv, order)
<1>1. order \in [1 .. 6 -> 1 .. 6]
  BY DEF Orders, Bijection, Injection, Surjection
<1>2. \A n \in 1 .. 6 : Option(argv, n) \in STRING /\ Value(argv, n) \in STRING
  <2>1. \A k \in 1 .. 12 : argv[k] \in STRING
    BY ElementOfSeq
  <2>2. \A n \in 1 .. 6 : 2 * n - 1 \in 1 .. 12 /\ 2 * n \in 1 .. 12
    OBVIOUS
  <2> QED
    BY <2>1, <2>2 DEF Option, Value
<1>3. other \in [1 .. 12 -> STRING]
  <2>1. \A k \in 1 .. 12 : /\ k % 2 = 1 => (k + 1) \div 2 \in 1 .. 6
                           /\ k % 2 # 1 => k \div 2 \in 1 .. 6
    OBVIOUS
  <2>2. \A k \in 1 .. 12 : other[k] \in STRING
    BY <1>1, <1>2, <2>1 DEF Reordered
  <2> DEFINE at(k) == IF k % 2 = 1 THEN Option(argv, order[(k + 1) \div 2])
                                   ELSE Value(argv, order[k \div 2])
  <2>3. other = [k \in 1 .. 12 |-> at(k)]
    BY DEF Reordered
  <2>4. \A k \in 1 .. 12 : at(k) \in STRING
    BY <2>2, <2>3
  <2> HIDE DEF other, at
  <2> QED
    BY <2>3, <2>4
<1>4. Len(other) = 12
  <2> HIDE DEF other
  <2>1. other \in Seq(STRING)
    <3>1. other \in UNION {[1 .. n -> STRING] : n \in Nat}
      BY <1>3
    <3> QED
      BY <3>1, SeqDef
  <2>2. DOMAIN other = 1 .. Len(other) /\ Len(other) \in Nat
    BY <2>1, LenProperties
  <2>3. DOMAIN other = 1 .. 12
    BY <1>3
  <2>4. ASSUME NEW n \in Nat, 1 .. n = 1 .. 12 PROVE n = 12
    <3>1. 12 \in 1 .. n /\ n \in 1 .. 12
      <4>0. 1 \in 1 .. 12 /\ 12 \in 1 .. 12
        OBVIOUS
      <4>1. 1 \in 1 .. n /\ 12 \in 1 .. n
        BY <2>4, <4>0, Zenon
      <4>2. n \in 1 .. n
        BY <4>1
      <4> QED
        BY <2>4, <4>1, <4>2
    <3> QED
      BY <3>1
  <2> QED
    BY <2>2, <2>3, <2>4
<1>5. ASSUME NEW n \in 1 .. 6
      PROVE  /\ Option(other, n) = Option(argv, order[n])
             /\ Value(other, n) = Value(argv, order[n])
  <2>1. /\ 2 * n - 1 \in 1 .. 12 /\ (2 * n - 1) % 2 = 1 /\ (2 * n - 1 + 1) \div 2 = n
        /\ 2 * n \in 1 .. 12 /\ (2 * n) % 2 # 1 /\ (2 * n) \div 2 = n
    OBVIOUS
  <2>2. other[2 * n - 1] = Option(argv, order[n])
    BY <2>1 DEF Reordered
  <2>3. other[2 * n] = Value(argv, order[n])
    BY <2>1 DEF Reordered
  <2> HIDE DEF other
  <2> QED
    BY <2>2, <2>3 DEF Option, Value
<1> QED
  BY <1>4, <1>5

(* No option is given twice, so that all six are.                          *)
EachOptionOnce ==
    \A p \in Proc : \A n, k \in 1 .. 6 :
        Option(Args[p], n) = Option(Args[p], k) => n = k

LEMMA GivenInAnyOrder ==
    ASSUME NEW argv \in Seq(STRING), Len(argv) = 12, NEW order \in Orders,
           \A n, k \in 1 .. 6 : Option(argv, n) = Option(argv, k) => n = k,
           NEW option
    PROVE  Given(Reordered(argv, order), option) = Given(argv, option)
<1> DEFINE other == Reordered(argv, order)
           here == {n \in 1 .. 6 : Option(argv, n) = option}
           there == {n \in 1 .. 6 : Option(other, n) = option}
<1>1. /\ order \in [1 .. 6 -> 1 .. 6]
      /\ \A n \in 1 .. 6 : \E k \in 1 .. 6 : order[k] = n
  BY DEF Orders, Bijection, Injection, Surjection
<1>2. Len(other) = 12 /\ \A n \in 1 .. 6 : /\ Option(other, n) = Option(argv, order[n])
                                           /\ Value(other, n) = Value(argv, order[n])
  BY ReorderedPairs
<1>3. /\ Given(argv, option) = IF here = {} THEN "" ELSE Value(argv, Max(here))
      /\ Given(other, option) = IF there = {} THEN "" ELSE Value(other, Max(there))
  BY <1>2, SixPairs DEF Given
<1> HIDE DEF other
<1>4. CASE here = {}
  <2>1. there = {}
    BY <1>1, <1>2, <1>4
  <2> QED
    BY <1>3, <1>4, <2>1 DEF other
<1>5. CASE here # {}
  <2>1. Max(here) \in here
    BY <1>5, Extremes
  <2>2. there # {}
    BY <1>1, <1>2, <2>1
  <2>3. Max(there) \in there
    BY <2>2, Extremes
  <2>4. order[Max(there)] = Max(here)
    BY <1>1, <1>2, <2>1, <2>3
  <2>5. Value(other, Max(there)) = Value(argv, Max(here))
    BY <1>2, <2>3, <2>4
  <2> QED
    BY <1>3, <1>5, <2>2, <2>5 DEF other
<1> QED
  BY <1>4, <1>5

(***************************************************************************)
(* AnyOrderIsRead: the loop of main takes six different options in any     *)
(* order, whatever their values, and the node has the same ones.           *)
(***************************************************************************)
THEOREM AnyOrderIsRead ==
    ASSUME EachOptionOnce PROVE Spec => []AnyOrderStarts
<1>1. ASSUME NEW p \in Proc, NEW order \in Orders
      PROVE  /\ ExitCode(Reordered(Args[p], order)) = 0
             /\ \A option \in Options :
                  Given(Reordered(Args[p], order), option) = Given(Args[p], option)
  <2> DEFINE argv == Args[p]
             other == Reordered(argv, order)
  <2>1. /\ argv \in Seq(STRING) /\ Len(argv) = 12
        /\ \A n \in 1 .. 6 : ~IsUnknown(argv, n) /\ ~IsNoNumber(argv, n)
        /\ FromString(Given(argv, "-node")) # "unknown"
    BY MessagingAssumption, Accepted
  <2>2. \A n, k \in 1 .. 6 : Option(argv, n) = Option(argv, k) => n = k
    BY DEF EachOptionOnce
  <2> HIDE DEF argv
  <2>3. \A option : Given(other, option) = Given(argv, option)
    BY <2>1, <2>2, GivenInAnyOrder
  <2>4. Len(other) = 12 /\ \A n \in 1 .. 6 : /\ order[n] \in 1 .. 6
                                             /\ Option(other, n) = Option(argv, order[n])
                                             /\ Value(other, n) = Value(argv, order[n])
    BY <2>1, ReorderedPairs DEF Orders, Bijection, Injection, Surjection
  <2> HIDE DEF other
  <2>5. \A n \in 1 .. 6 : ~IsUnknown(other, n) /\ ~IsNoNumber(other, n)
    BY <2>1, <2>4 DEF IsUnknown, IsNoNumber
  <2>6. ExitCode(other) = 0
    BY <2>1, <2>3, <2>4, <2>5, Accepted
  <2> QED
    BY <2>3, <2>6 DEF argv, other
<1>2. AnyOrderStarts
  BY <1>1 DEF AnyOrderStarts, Misread
<1> QED
  BY <1>2, PTL
-----------------------------------------------------------------------------
(* Bursts.                                                                 *)

(***************************************************************************)
(* What changes in a datagram is in up to four neighbouring bytes of the   *)
(* header and the data, or in the CRC.                                     *)
(***************************************************************************)
IsShort(damage) ==
    /\ \E k \in DOMAIN damage : damage[k] # {}
    /\ \/ \E i \in 0 .. ContentSize - 4 : DOMAIN damage \subseteq i + 1 .. i + 4
       \/ DOMAIN damage \subseteq ContentSize + 1 .. WireSize

ShortBursts == \A burst \in Bursts : IsShort(burst)
ShortDamages == \A damage \in Damages : IsShort(damage)

LEMMA DamageIsShort ==
    ASSUME NEW wire \in Wires, NEW damage \in Damages \cup Bursts, IsShort(damage)
    PROVE  /\ Damaged(wire, damage) # wire
           /\ DiffersShortly(wire, Damaged(wire, damage))
<1> DEFINE w == Damaged(wire, damage)
<1>1. wire \in [1 .. WireSize -> Byte] /\ DOMAIN damage \subseteq 1 .. WireSize
  BY MessagingAssumption DEF Wires, Word
<1>2. /\ \A k \in 1 .. WireSize : k \notin DOMAIN damage => w[k] = wire[k]
      /\ \A k \in DOMAIN damage : w[k] = Xor(wire[k], damage[k])
  BY <1>1 DEF Damaged
<1> HIDE DEF w
<1>3. w # wire
  <2>1. PICK k \in DOMAIN damage : damage[k] # {}
    BY DEF IsShort
  <2>2. Xor(wire[k], damage[k]) # wire[k]
    BY <2>1 DEF Xor
  <2> QED
    BY <1>2, <2>2
<1>4. CASE \E i \in 0 .. ContentSize - 4 : DOMAIN damage \subseteq i + 1 .. i + 4
  <2>1. PICK i \in 0 .. ContentSize - 4 : DOMAIN damage \subseteq i + 1 .. i + 4
    BY <1>4
  <2>2. SameBut4(w, wire, WireSize, i)
    BY <1>2, <2>1 DEF SameBut4
  <2> QED
    BY <1>3, <2>2 DEF DiffersShortly, w
<1>5. CASE DOMAIN damage \subseteq ContentSize + 1 .. WireSize
  <2>1. ContentSize \in Nat /\ WireSize = ContentSize + 4
    BY PacketAssumption DEF ContentSize, HeaderSize, WireSize
  <2>2. \A k \in 1 .. ContentSize : k \in 1 .. WireSize /\ k \notin ContentSize + 1 .. WireSize
    BY <2>1
  <2>3. \A k \in 1 .. ContentSize : w[k] = wire[k]
    BY <1>2, <1>5, <2>2
  <2> QED
    BY <1>3, <2>3 DEF DiffersShortly, w
<1> QED
  BY <1>4, <1>5 DEF IsShort

LEMMA ShortDamageIsFound ==
    ASSUME NEW pkt \in PacketFields, NEW damage \in Damages \cup Bursts, IsShort(damage)
    PROVE  IsBad(Damaged(Serialize(pkt), damage))
<1> DEFINE wire == Serialize(pkt)
<1>1. wire \in Wires
  BY SerializeType DEF Wires
<1>2. /\ Damaged(wire, damage) \in Word(WireSize)
      /\ Damaged(wire, damage) # wire
      /\ DiffersShortly(wire, Damaged(wire, damage))
  <2> HIDE DEF wire
  <2> QED
    BY <1>1, DamageIsShort, DamagedType DEF Wires
<1> QED
  BY <1>2, ShortBurstsAreFound DEF IsBad

(***************************************************************************)
(* ShortBurstsAreDetected: a datagram with a message, of any process to    *)
(* any other and with any text, does not pass the receiver once such a     *)
(* burst has hit it.                                                       *)
(***************************************************************************)
THEOREM ShortBurstsAreDetected ==
    ASSUME ShortBursts PROVE Spec => []BurstsAreDetected
<1>1. ASSUME NEW wire \in TextWires, NEW burst \in Bursts
      PROVE  ~VerifyCRC(Fields(Damaged(wire, burst)))
  <2>1. PICK p \in Senders, q \in Proc, text \in Texts, garbage \in Garbage :
          wire = Serialize(TextPacket(p, q, text, garbage))
    BY DEF TextWires
  <2>2. p \in Proc /\ IsShort(burst)
    BY MessagingAssumption DEF ShortBursts
  <2>3. TextPacket(p, q, text, garbage) \in PacketFields
    BY <2>2, TextPacketType
  <2> QED
    BY <2>1, <2>2, <2>3, ShortDamageIsFound DEF IsBad
<1>2. BurstsAreDetected
  BY <1>1 DEF BurstsAreDetected, Unprotected
<1> QED
  BY <1>2, PTL

(* Each datagram is what sendMessage made of its message, or bad; and what *)
(* is printed was sent.                                                    *)
DetectedInv ==
    /\ \A d \in network : IsMessage(d) \/ IsBad(d.wire)
    /\ \A m \in printed : IsWhatWasSent(m)

LEMMA DetectedStep ==
    ASSUME ShortDamages, TypeOK, UndamagedInv, DetectedInv, [Next]_vars
    PROVE  DetectedInv'
<1>1. /\ \A d \in network : IsMessage(d)' \/ IsBad(d.wire)
      /\ \A m \in printed : IsWhatWasSent(m)'
  BY MessageStays, PrintedStays DEF DetectedInv
<1>2. CASE network' \subseteq network /\ printed' = printed
  BY <1>1, <1>2 DEF DetectedInv
<1>3. ASSUME NEW p \in Proc, SendMessage(p)
      PROVE  DetectedInv'
  BY <1>1, <1>3, MessageIsSent DEF DetectedInv, SendMessage
<1>4. ASSUME NEW p \in Proc, ReceiveMessage(p)
      PROVE  DetectedInv'
  <2>1. /\ \A d \in network' : d \in network \/ IsMessage(d)
        /\ \A m \in printed' : m \in printed \/ IsWhatWasSent(m)
    BY <1>4, Received DEF DetectedInv
  <2> QED
    BY <1>1, <2>1, MessageStays, PrintedStays DEF DetectedInv
<1>5. CASE Duplicate
  <2>1. PICK d \in network : network' = network \cup {[d EXCEPT !.copy = 1]}
    BY <1>5 DEF Duplicate
  <2>2. PICK e : e = [d EXCEPT !.copy = 1]
    OBVIOUS
  <2>3. e.id = d.id /\ e.wire = d.wire
    BY <2>2 DEF TypeOK, Datagrams
  <2>4. IsMessage(d)' => IsMessage(e)'
    BY <2>3 DEF IsMessage
  <2> QED
    BY <1>1, <1>5, <2>1, <2>2, <2>3, <2>4 DEF DetectedInv, Duplicate
<1>6. CASE Damage
  <2>1. PICK d \in network, damage \in Damages :
          network' = (network \ {d}) \cup {[d EXCEPT !.wire = Damaged(@, damage)]}
    BY <1>6 DEF Damage
  <2>2. PICK e : e = [d EXCEPT !.wire = Damaged(@, damage)]
    OBVIOUS
  <2>3. e.wire = Damaged(d.wire, damage)
    BY <2>2 DEF TypeOK, Datagrams
  <2>4. IsMessage(d)
    BY <1>6 DEF Damage, FaultHappens, UndamagedInv
  <2>5. PICK pkt \in PacketFields : d.wire = Serialize(pkt)
    <3>1. PICK garbage \in Garbage :
            d.wire = Serialize(TextPacket(sent[d.id].from, sent[d.id].to,
                                          sent[d.id].command.text, garbage))
      BY <2>4 DEF IsMessage
    <3>2. /\ sent[d.id].from \in Proc /\ sent[d.id].to \in Proc
          /\ sent[d.id].command.text \in Texts
      BY <2>4, SentType DEF IsMessage, Command
    <3> QED
      BY <3>1, <3>2, TextPacketType
  <2>6. IsBad(e.wire)
    BY <2>3, <2>5, ShortDamageIsFound DEF ShortDamages
  <2> QED
    BY <1>1, <1>6, <2>1, <2>2, <2>6 DEF DetectedInv, Damage
<1> QED
  BY <1>2, <1>3, <1>4, <1>5, <1>6
  DEF Next, vars, userVars, User, InputThread, Kill, InputEnds, EnterMessage,
      RepeatCommand, Learn, Unreachable, Lose

(***************************************************************************)
(* ShortDamageIsGenuine: if the damage that may happen is short, what      *)
(* receivers print is what users have sent them, damaged or not: no        *)
(* changed text is printed, and no other process prints a text because its *)
(* address has changed.                                                    *)
(***************************************************************************)
THEOREM ShortDamageIsGenuine ==
    ASSUME ShortDamages PROVE Spec => []Genuine
<1>1. Init => DetectedInv
  BY DEF Init, DetectedInv
<1>2. TypeOK /\ UndamagedInv /\ DetectedInv /\ [Next]_vars => DetectedInv'
  BY DetectedStep
<1>3. TypeOK /\ SentInv /\ DetectedInv => Genuine
  BY WhatWasSentIsGenuine DEF DetectedInv
<1>4. Inv => TypeOK /\ UndamagedInv /\ SentInv
  BY DEF Inv
<1> QED
  BY <1>1, <1>2, <1>3, <1>4, Invariance, PTL DEF Spec
=============================================================================
