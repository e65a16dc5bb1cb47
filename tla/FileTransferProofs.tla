------------------------- MODULE FileTransferProofs -------------------------
(***************************************************************************)
(* What is proved of FileTransfer, for every set of processes and files,   *)
(* every size of the files and of a fragment.                              *)
(***************************************************************************)
EXTENDS FileTransfer, FiniteSetTheorems, SequenceTheorems, TLAPS

-----------------------------------------------------------------------------
(* Fragments.                                                              *)

(* What an integer division rounds off.                                    *)
LEMMA Division ==
    ASSUME NEW a \in Nat, NEW b \in Nat \ {0}
    PROVE  /\ a \div b \in Nat
           /\ (a \div b) * b <= a
           /\ a < (a \div b) * b + b
OBVIOUS

(* FragCount rounds up: as many fragments hold the file, and one less does *)
(* not.                                                                    *)
LEMMA FragCountProperties ==
    ASSUME NEW t \in Transfer
    PROVE  /\ FragCount(t) \in Nat
           /\ Size[t] <= FragCount(t) * FragmentSize
           /\ Size[t] > 0 => FragCount(t) # 0
           /\ \A n \in 1 .. FragCount(t) : (n - 1) * FragmentSize + 1 <= Size[t]
<1> DEFINE a == Size[t] + FragmentSize - 1
           q == FragCount(t)
<1>1. Size[t] \in Nat /\ FragmentSize \in Nat \ {0} /\ a \in Nat
  BY TransferAssumption
<1>2. /\ q \in Nat
      /\ q * FragmentSize <= a
      /\ a < q * FragmentSize + FragmentSize
  <2> HIDE DEF a
  <2>1. q = a \div FragmentSize
    BY DEF FragCount, a
  <2> QED
    BY <1>1, <2>1, Division
<1> HIDE DEF q
<1>3. Size[t] <= q * FragmentSize
  BY <1>1, <1>2
<1>4. Size[t] > 0 => q # 0
  BY <1>1, <1>3
<1>5. ASSUME NEW n \in 1 .. q PROVE (n - 1) * FragmentSize + 1 <= Size[t]
  <2>1. n * FragmentSize <= q * FragmentSize
    <3>1. /\ n \in Nat /\ q - n \in Nat
          /\ q * FragmentSize = n * FragmentSize + (q - n) * FragmentSize
      BY <1>1, <1>2
    <3>2. (q - n) * FragmentSize \in Nat
      BY <1>1, <3>1
    <3> QED
      BY <1>1, <3>1, <3>2
  <2>2. n * FragmentSize = (n - 1) * FragmentSize + FragmentSize
    BY <1>1, <1>2
  <2>3. (n - 1) * FragmentSize \in Nat /\ q * FragmentSize \in Nat
    BY <1>1, <1>2
  <2> QED
    BY <1>1, <1>2, <2>1, <2>2, <2>3
<1> QED
  BY <1>2, <1>3, <1>4, <1>5 DEF q

LEMMA ReadFragmentType ==
    ASSUME NEW t \in Transfer, NEW n \in Nat \ {0}, NEW buffer \in FragmentData
    PROVE  ReadFragment(t, n, buffer) \in FragmentData
<1>1. FragmentSize \in Nat \ {0}
  BY TransferAssumption
<1>2. \A k \in 1 .. FragmentSize : (n - 1) * FragmentSize + k \in Nat
  <2>1. (n - 1) * FragmentSize \in Nat
    BY <1>1
  <2> QED
    BY <1>1, <2>1
<1>3. \A k \in 1 .. FragmentSize : buffer[k] \in Chunk
  BY DEF FragmentData
<1> QED
  BY <1>2, <1>3 DEF ReadFragment, FragmentData, Chunk
-----------------------------------------------------------------------------
(* Types.                                                                  *)

ReceiverState ==
    {Idle} \cup [stage : {"write", "count"}, packet : Packet]
           \cup [stage : {"copy"}, packet : Packet, total : Nat,
                 next : Nat, good : BOOLEAN]

(* A command counts fragments from 1, and /tmp holds finitely many.        *)
TypeInv ==
    /\ TypeOK
    /\ \A s \in Node : command[s].next # 0
    /\ IsFiniteSet(tmp)

LEMMA ReceiverTypes ==
    ASSUME TypeOK, NEW n \in Node
    PROVE  /\ receiver \in [Node -> ReceiverState]
           /\ receiver[n].stage \in {"idle", "write", "count", "copy"}
           /\ receiver[n] = Idle <=> receiver[n].stage = "idle"
           /\ receiver[n].stage # "idle" => receiver[n].packet \in Packet
           /\ receiver[n].stage = "copy" =>
                /\ receiver[n].total \in Nat
                /\ receiver[n].next \in Nat
                /\ receiver[n].good \in BOOLEAN
<1>1. receiver \in [Node -> ReceiverState]
  BY DEF TypeOK, ReceiverState
<1>2. receiver[n] \in ReceiverState
  BY <1>1
<1>3. CASE receiver[n] = Idle
  BY <1>1, <1>3 DEF Idle
<1>4. CASE receiver[n] \in [stage : {"write", "count"}, packet : Packet]
  BY <1>1, <1>4 DEF Idle
<1>5. CASE receiver[n] \in [stage : {"copy"}, packet : Packet, total : Nat,
                            next : Nat, good : BOOLEAN]
  BY <1>1, <1>5 DEF Idle
<1> QED
  BY <1>2, <1>3, <1>4, <1>5 DEF ReceiverState

LEMMA StateTypes ==
    /\ Idle \in ReceiverState
    /\ \A p \in Packet : Writing(p) \in ReceiverState /\ Counting(p) \in ReceiverState
    /\ \A p \in Packet, total \in Nat, i \in Nat, good \in BOOLEAN :
         Copying(p, total, i, good) \in ReceiverState
BY DEF ReceiverState, Writing, Counting, Copying

LEMMA InitType == Init => TypeInv
<1> SUFFICES ASSUME Init PROVE TypeInv
  OBVIOUS
<1> USE DEF Init
<1>1. Blank \in FragmentData
  BY DEF Blank, FragmentData, Junk, Chunk
<1>2. command \in [Node -> Command] /\ \A s \in Node : command[s].next # 0
  BY <1>1 DEF Command
<1>3. receiver \in [Node -> ReceiverState]
  BY StateTypes
<1>4. final \in [Node -> Seq(Chunk)]
  BY EmptySeq
<1>5. losses \in 0 .. MaxLosses /\ copies \in 0 .. MaxCopies
  BY TransferAssumption
<1>6. IsFiniteSet(tmp)
  BY FS_EmptySet
<1> QED
  BY <1>2, <1>3, <1>4, <1>5, <1>6 DEF TypeInv, TypeOK, ReceiverState

(* The packet that sendFile builds and what the command is then.           *)
NextPacket(s) ==
    LET t == command[s].transfer
        n == command[s].next
    IN  [source |-> s, target |-> TargetOf[t], number |-> n % Numbers,
         count |-> FragCount(t) % Numbers,
         data |-> ReadFragment(t, n, command[s].buffer)]

LEMMA SendFragmentType ==
    ASSUME TypeInv, NEW s \in Node, Sending(s)
    PROVE  /\ command[s].transfer \in Transfer
           /\ command[s].next \in Nat \ {0}
           /\ command[s].buffer \in FragmentData
           /\ NextPacket(s) \in Packet
<1> DEFINE t == command[s].transfer
           n == command[s].next
<1>1. /\ t \in Transfer /\ n \in Nat \ {0} /\ command[s].buffer \in FragmentData
  BY DEF TypeInv, TypeOK, Command, Sending
<1> HIDE DEF t, n
<1>2. ReadFragment(t, n, command[s].buffer) \in FragmentData
  BY <1>1, ReadFragmentType
<1>3. Numbers \in Nat \ {0} /\ TargetOf[t] \in Node
  BY <1>1, TransferAssumption
<1>4. n % Numbers \in Nat /\ FragCount(t) % Numbers \in Nat
  BY <1>1, <1>3, FragCountProperties
<1> QED
  BY <1>1, <1>2, <1>3, <1>4 DEF NextPacket, Packet, t, n

LEMMA TypeStep ==
    ASSUME TypeInv, [Next]_vars
    PROVE  TypeInv'
<1>0. /\ command \in [Node -> Command]
      /\ issued \subseteq Transfer
      /\ network \subseteq Datagram
      /\ receiver \in [Node -> ReceiverState]
      /\ tmp \subseteq [source : Node, number : Nat, data : FragmentData]
      /\ final \in [Node -> Seq(Chunk)]
      /\ losses \in 0 .. MaxLosses
      /\ copies \in 0 .. MaxCopies
      /\ \A s \in Node : command[s].next # 0
      /\ IsFiniteSet(tmp)
  BY DEF TypeInv, TypeOK, ReceiverState
<1> DEFINE Typed == /\ command' \in [Node -> Command]
                    /\ issued' \subseteq Transfer
                    /\ network' \subseteq Datagram
                    /\ receiver' \in [Node -> ReceiverState]
                    /\ tmp' \subseteq [source : Node, number : Nat, data : FragmentData]
                    /\ final' \in [Node -> Seq(Chunk)]
                    /\ losses' \in 0 .. MaxLosses
                    /\ copies' \in 0 .. MaxCopies
                    /\ \A s \in Node : command'[s].next # 0
                    /\ IsFiniteSet(tmp')
<1> SUFFICES Typed
  BY DEF TypeInv, TypeOK, ReceiverState
<1>1. ASSUME NEW s \in Node, NEW t \in Transfer, SendFile(s, t) PROVE Typed
  <2>1. [transfer |-> t, next |-> 1, buffer |-> Blank] \in Command
    BY DEF Command, Blank, FragmentData, Junk, Chunk
  <2> QED
    BY <1>0, <1>1, <2>1 DEF SendFile
<1>2. ASSUME NEW s \in Node, SendFragment(s) PROVE Typed
  <2> DEFINE t == command[s].transfer
             n == command[s].next
             data == ReadFragment(t, n, command[s].buffer)
             c == [transfer |-> t, next |-> n + 1, buffer |-> data]
  <2>1. /\ t \in Transfer /\ n \in Nat \ {0} /\ data \in FragmentData
        /\ NextPacket(s) \in Packet
    BY <1>2, SendFragmentType, ReadFragmentType DEF SendFragment
  <2>2. PICK hop \in (Relays \cup {TargetOf[t]}) \ {s} :
          network' = network \cup {[packet |-> NextPacket(s), to |-> hop, copy |-> 0]}
    BY <1>2 DEF SendFragment, NextPacket
  <2>3. hop \in Node
    BY <2>1, TransferAssumption
  <2>4. network' \subseteq Datagram
    BY <1>0, <2>1, <2>2, <2>3 DEF Datagram
  <2>5. command' = [command EXCEPT ![s] = c]
    BY <1>2 DEF SendFragment
  <2>6. c \in Command /\ c.next # 0
    BY <2>1 DEF Command
  <2> HIDE DEF c
  <2> QED
    BY <1>0, <1>2, <2>4, <2>5, <2>6 DEF SendFragment
<1>3. CASE Lose
  <2>1. losses' \in 0 .. MaxLosses
    BY <1>0, <1>3, TransferAssumption DEF Lose
  <2> QED
    BY <1>0, <1>3, <2>1 DEF Lose
<1>4. CASE Duplicate
  <2>1. copies' \in 0 .. MaxCopies
    BY <1>0, <1>4, TransferAssumption DEF Duplicate
  <2>2. PICK d \in network : network' = network \cup {[d EXCEPT !.copy = copies']}
    BY <1>4 DEF Duplicate
  <2>3. d \in Datagram /\ copies' \in Nat
    BY <1>0, <2>1, <2>2
  <2>4. [d EXCEPT !.copy = copies'] \in Datagram
    BY <2>3 DEF Datagram
  <2> QED
    BY <1>0, <1>4, <2>1, <2>2, <2>4 DEF Duplicate
<1>5. ASSUME NEW n \in Node, Forward(n) PROVE Typed
  <2>1. PICK d \in network :
          network' = (network \ {d}) \cup {[d EXCEPT !.to = d.packet.target]}
    BY <1>5 DEF Forward
  <2>2. [d EXCEPT !.to = d.packet.target] \in Datagram
    BY <1>0, <2>1 DEF Datagram, Packet
  <2> QED
    BY <1>0, <1>5, <2>1, <2>2 DEF Forward
<1>6. ASSUME NEW n \in Node, Receive(n) PROVE Typed
  <2>1. PICK d \in network : /\ network' = network \ {d}
                             /\ receiver' = [receiver EXCEPT ![n] = Writing(d.packet)]
    BY <1>6 DEF Receive
  <2>2. d.packet \in Packet
    BY <1>0, <2>1 DEF Datagram
  <2> QED
    BY <1>0, <1>6, <2>1, <2>2, StateTypes DEF Receive
<1>7. ASSUME NEW n \in Node, WriteToFile(n) PROVE Typed
  <2> DEFINE p == receiver[n].packet
             f == [source |-> p.source, number |-> p.number, data |-> p.data]
  <2>1. p \in Packet
    BY <1>7, ReceiverTypes DEF WriteToFile, TypeInv
  <2>2. f \in [source : Node, number : Nat, data : FragmentData]
    BY <2>1 DEF Packet
  <2>3. tmp' = (tmp \ Fragments(p.source, p.number)) \cup {f}
    BY <1>7 DEF WriteToFile
  <2>4. IsFiniteSet(tmp')
    <3>1. IsFiniteSet(tmp \ Fragments(p.source, p.number))
      BY <1>0, FS_Subset
    <3> QED
      BY <2>3, <3>1, FS_AddElement
  <2>5. receiver' \in [Node -> ReceiverState]
    BY <1>0, <1>7, <2>1, StateTypes DEF WriteToFile
  <2> HIDE DEF f
  <2> QED
    BY <1>0, <1>7, <2>2, <2>3, <2>4, <2>5 DEF WriteToFile
<1>8. ASSUME NEW n \in Node, CountFragments(n) PROVE Typed
  <2> DEFINE p == receiver[n].packet
             K == {f \in tmp : f.source \in SamePrefix[p.source]}
             total == Cardinality(K)
  <2>1. p \in Packet
    BY <1>8, ReceiverTypes DEF CountFragments, TypeInv
  <2>2. total \in Nat
    <3>1. K \subseteq tmp
      OBVIOUS
    <3> QED
      BY <1>0, <3>1, FS_Subset, FS_CardinalityType
  <2> HIDE DEF total
  <2>3. receiver' \in [Node -> ReceiverState]
    <3>1. \/ receiver' = [receiver EXCEPT ![n] = Copying(p, total, 1, TRUE)]
          \/ receiver' = [receiver EXCEPT ![n] = Idle]
      BY <1>8 DEF CountFragments, total
    <3>2. Copying(p, total, 1, TRUE) \in ReceiverState /\ Idle \in ReceiverState
      BY <2>1, <2>2, StateTypes
    <3> QED
      BY <1>0, <3>1, <3>2
  <2>4. final' \in [Node -> Seq(Chunk)]
    BY <1>0, <1>8, EmptySeq DEF CountFragments
  <2> QED
    BY <1>0, <1>8, <2>3, <2>4 DEF CountFragments
<1>9. ASSUME NEW n \in Node, CopyFragment(n) PROVE Typed
  <2> DEFINE r == receiver[n]
             p == r.packet
             found == {f.data : f \in Fragments(p.source, r.next)}
  <2>1. /\ p \in Packet /\ r.total \in Nat /\ r.next \in Nat /\ r.next + 1 \in Nat
    BY <1>9, ReceiverTypes DEF CopyFragment, TypeInv
  <2>2. receiver' \in [Node -> ReceiverState]
    <3>1. (r.good /\ found # {}) \in BOOLEAN
      OBVIOUS
    <3>2. Copying(p, r.total, r.next + 1, r.good /\ found # {}) \in ReceiverState
      <4> DEFINE good == r.good /\ found # {}
      <4>1. good \in BOOLEAN
        BY <3>1
      <4> HIDE DEF good
      <4>2. Copying(p, r.total, r.next + 1, good) \in ReceiverState
        BY <2>1, <4>1, StateTypes
      <4> QED
        BY <4>2 DEF good
    <3>3. receiver' = [receiver EXCEPT ![n] =
                         Copying(p, r.total, r.next + 1, r.good /\ found # {})]
      BY <1>9 DEF CopyFragment
    <3> QED
      BY <1>0, <3>2, <3>3
  <2>3. final' \in [Node -> Seq(Chunk)]
    <3>1. CASE UNCHANGED final
      BY <1>0, <3>1
    <3>2. CASE r.good /\ found # {}
      <4>1. PICK data \in found : final' = [final EXCEPT ![p.source] = @ \o data]
        BY <1>9, <3>2 DEF CopyFragment
      <4>2. data \in FragmentData
        BY <1>0, <4>1 DEF Fragments
      <4>3. data \in Seq(Chunk)
        <5>1. FragmentSize \in Nat
          BY TransferAssumption
        <5> QED
          BY <4>2, <5>1, SeqDef DEF FragmentData
      <4>4. p.source \in Node /\ final[p.source] \in Seq(Chunk)
        BY <1>0, <2>1 DEF Packet
      <4>5. final[p.source] \o data \in Seq(Chunk)
        BY <4>3, <4>4, ConcatProperties
      <4> QED
        BY <1>0, <4>1, <4>5
    <3> QED
      BY <1>9, <3>1, <3>2 DEF CopyFragment
  <2>4. tmp' \subseteq tmp
    BY <1>9 DEF CopyFragment, RemoveFragment
  <2>5. IsFiniteSet(tmp')
    BY <1>0, <2>4, FS_Subset
  <2> QED
    BY <1>0, <1>9, <2>2, <2>3, <2>4, <2>5 DEF CopyFragment
<1>10. ASSUME NEW n \in Node, CloseFile(n) PROVE Typed
  BY <1>0, <1>10, StateTypes DEF CloseFile
<1>11. CASE UNCHANGED vars
  BY <1>0, <1>11 DEF vars
<1> QED
  BY <1>1, <1>2, <1>3, <1>4, <1>5, <1>6, <1>7, <1>8, <1>9, <1>10, <1>11
     DEF Next, ReceiverThread

LEMMA TypeInductive == Spec => []TypeInv
BY InitType, TypeStep, PTL DEF Spec

(***************************************************************************)
(* The variables keep their types, whatever users send and the network     *)
(* loses or duplicates.                                                    *)
(***************************************************************************)
THEOREM TypeCorrect == Spec => []TypeOK
<1>1. TypeInv => TypeOK
  BY DEF TypeInv
<1> QED
  BY <1>1, TypeInductive, PTL
-----------------------------------------------------------------------------
(* The hypotheses of the theorems below, all of them about the constants.  *)

(* No two users who send files have ports one of which begins with the     *)
(* other: reassembleFile counts the fragments of both as one file's.       *)
OwnNames ==
    \A t, u \in Transfer :
        SourceOf[t] \in SamePrefix[SourceOf[u]] => SourceOf[t] = SourceOf[u]

(* The number of fragments fits fragmentCount, a uint16_t.                 *)
CountsFit == \A t \in Transfer : FragCount(t) < Numbers

(* Nobody sends a second file; the network is as bad as it may be.         *)
OneFileEach == \A t, u \in Transfer : SourceOf[t] = SourceOf[u] => t = u

(* Users wait for a file to settle, and the network is perfect, though it  *)
(* may reorder.                                                            *)
Reliable == ~Hasty /\ MaxLosses = 0 /\ MaxCopies = 0
-----------------------------------------------------------------------------
(* The inductive invariant: everything on its way is part of the file that *)
(* its source is sending now.                                              *)

Cur(s) == command[s].transfer

(* A fragment of that file which was sent; the rest of the buffer is junk. *)
IsFragment(s, number, data) ==
    /\ Cur(s) # NoTransfer
    /\ number \in 1 .. command[s].next - 1
    /\ \A k \in 1 .. FragmentSize :
         (number - 1) * FragmentSize + k <= Size[Cur(s)]
           => data[k] = <<Cur(s), (number - 1) * FragmentSize + k>>

IsPacket(p) ==
    /\ IsFragment(p.source, p.number, p.data)
    /\ p.target = TargetOf[Cur(p.source)]
    /\ p.count = FragCount(Cur(p.source))

CommandInv ==
    \A s \in Node : Cur(s) # NoTransfer =>
        /\ Cur(s) \in issued
        /\ SourceOf[Cur(s)] = s
        /\ command[s].next \in 1 .. FragCount(Cur(s)) + 1

PacketInv ==
    /\ \A d \in network : IsPacket(d.packet)
    /\ \A n \in Node : receiver[n].stage # "idle" =>
          IsPacket(receiver[n].packet) /\ receiver[n].packet.target = n

TmpInv ==
    /\ \A f \in tmp : IsFragment(f.source, f.number, f.data)
    /\ \A f, g \in tmp : f.source = g.source /\ f.number = g.number => f = g

InTmp(s, i) == \E f \in tmp : f.source = s /\ f.number = i

(* A file is being put together: all of it was sent, the fragments that    *)
(* were not copied yet are in /tmp, the others are in the final file.      *)
CopiesWell(n) ==
    LET r == receiver[n]
        s == receiver[n].packet.source
    IN  /\ r.good
        /\ r.total = r.packet.count
        /\ r.next \in 1 .. r.total + 1
        /\ command[s].next = r.total + 1
        /\ \A i \in 1 .. r.total : InTmp(s, i) <=> r.next <= i
        /\ Len(final[s]) = (r.next - 1) * FragmentSize
        /\ \A j \in DOMAIN final[s] :
             j <= Size[Cur(s)] => final[s][j] = <<Cur(s), j>>

CopyInv == \A n \in Node : receiver[n].stage = "copy" => CopiesWell(n)

FileInv == TypeInv /\ CommandInv /\ PacketInv /\ TmpInv /\ CopyInv

(* Nothing of what s sent is left anywhere but in the final file.          *)
Fresh(s) ==
    /\ \A d \in network : d.packet.source # s
    /\ \A n \in Node : ~Handling(n, s)
    /\ \A f \in tmp : f.source # s
-----------------------------------------------------------------------------
(* The inductive invariant of a reliable network: nothing is there twice,  *)
(* and until a file is put together everything that was sent is somewhere. *)

DatagramsOf(s) == {d \in network : d.packet.source = s}
StoredOf(s) == {f \in tmp : f.source = s}

Once(s) ==
    /\ \A d, e \in DatagramsOf(s) : d.packet.number = e.packet.number => d = e
    /\ \A d \in DatagramsOf(s), f \in StoredOf(s) : d.packet.number # f.number
    /\ \A n \in Node : Handling(n, s) =>
         /\ receiver[n].stage = "write" =>
              /\ \A d \in DatagramsOf(s) : d.packet.number # receiver[n].packet.number
              /\ \A f \in StoredOf(s) : f.number # receiver[n].packet.number
         /\ receiver[n].stage = "copy" => DatagramsOf(s) = {}

OnItsWay(s, i) ==
    \/ \E d \in DatagramsOf(s) : d.packet.number = i
    \/ \E n \in Node : /\ Handling(n, s)
                       /\ receiver[n].stage = "write"
                       /\ receiver[n].packet.number = i

(* If all fragments are in /tmp, the receiver has yet to count them.       *)
Travelling(s) ==
    /\ \A i \in 1 .. command[s].next - 1 : OnItsWay(s, i) \/ InTmp(s, i)
    /\ (\A i \in 1 .. FragCount(Cur(s)) : InTmp(s, i))
         => \E n \in Node : Handling(n, s) /\ receiver[n].stage = "count"

Finished(s) == ~Sending(s) /\ Fresh(s)

Account(s) ==
    Cur(s) # NoTransfer => Travelling(s) \/ Assembling(s) \/ Finished(s)

ReliableInv == FileInv /\ \A s \in Node : Once(s) /\ Account(s)
-----------------------------------------------------------------------------
(* What depends on the command of one source.                              *)

LEMMA Modulo ==
    ASSUME NEW a \in Nat, NEW b \in Nat, a < b
    PROVE  a % b = a
OBVIOUS

(* Fragments and packets stay what they are while their source sends more. *)
LEMMA FragmentKept ==
    ASSUME NEW s, NEW i, NEW data, IsFragment(s, i, data),
           Cur(s)' = Cur(s),
           command[s].next \in Nat, command'[s].next \in Nat,
           command[s].next <= command'[s].next
    PROVE  IsFragment(s, i, data)'
<1>1. i \in 1 .. command'[s].next - 1
  BY DEF IsFragment
<1> QED
  BY <1>1 DEF IsFragment

LEMMA PacketKept ==
    ASSUME NEW p, IsPacket(p),
           Cur(p.source)' = Cur(p.source),
           command[p.source].next \in Nat, command'[p.source].next \in Nat,
           command[p.source].next <= command'[p.source].next
    PROVE  IsPacket(p)'
BY FragmentKept DEF IsPacket

LEMMA SameCommand ==
    ASSUME UNCHANGED command
    PROVE  /\ \A s : Cur(s)' = Cur(s)
           /\ \A s, i, data : IsFragment(s, i, data)' = IsFragment(s, i, data)
           /\ \A p : IsPacket(p)' = IsPacket(p)
BY DEF Cur, IsFragment, IsPacket

(* The types of what is on its way.                                        *)
LEMMA PacketTypes ==
    ASSUME FileInv
    PROVE  /\ \A d \in network : d.packet \in Packet /\ IsPacket(d.packet)
           /\ \A n \in Node : receiver[n].stage # "idle" =>
                /\ receiver[n].packet \in Packet
                /\ IsPacket(receiver[n].packet)
                /\ receiver[n].packet.target = n
           /\ \A f \in tmp : /\ f.source \in Node
                             /\ IsFragment(f.source, f.number, f.data)
           /\ \A p \in Packet : p.source \in Node
           /\ \A s \in Node : /\ command[s].next \in Nat \ {0}
                              /\ Cur(s) \in Transfer \cup {NoTransfer}
                              /\ final[s] \in Seq(Chunk)
<1>1. \A d \in network : d.packet \in Packet
  BY DEF FileInv, TypeInv, TypeOK, Datagram
<1>2. \A n \in Node : receiver[n].stage # "idle" => receiver[n].packet \in Packet
  BY ReceiverTypes DEF FileInv, TypeInv
<1>3. \A f \in tmp : f.source \in Node
  BY DEF FileInv, TypeInv, TypeOK
<1>4. \A s \in Node : /\ command[s].next \in Nat \ {0}
                      /\ Cur(s) \in Transfer \cup {NoTransfer}
                      /\ final[s] \in Seq(Chunk)
  BY DEF FileInv, TypeInv, TypeOK, Command, Cur
<1> QED
  BY <1>1, <1>2, <1>3, <1>4 DEF FileInv, PacketInv, TmpInv, Packet

(* What IsPacket says of numbers, spelled out.                             *)
LEMMA PacketNumbers ==
    ASSUME FileInv, NEW s \in Node, NEW i, NEW data, IsFragment(s, i, data)
    PROVE  /\ Cur(s) \in Transfer /\ SourceOf[Cur(s)] = s
           /\ FragCount(Cur(s)) \in Nat
           /\ command[s].next \in 1 .. FragCount(Cur(s)) + 1
           /\ i \in 1 .. FragCount(Cur(s))
           /\ i < command[s].next
<1>1. /\ Cur(s) \in Transfer /\ SourceOf[Cur(s)] = s
      /\ command[s].next \in 1 .. FragCount(Cur(s)) + 1
  BY PacketTypes DEF IsFragment, FileInv, CommandInv
<1>2. FragCount(Cur(s)) \in Nat
  BY <1>1, FragCountProperties
<1>3. i \in 1 .. command[s].next - 1
  BY DEF IsFragment
<1> QED
  BY <1>1, <1>2, <1>3

(* A source's packets all go to one process, so that only one receiver     *)
(* handles them.                                                           *)
LEMMA OneReceiver ==
    ASSUME FileInv, NEW m \in Node, NEW n \in Node,
           receiver[m].stage # "idle", receiver[n].stage # "idle",
           receiver[m].packet.source = receiver[n].packet.source
    PROVE  m = n
BY DEF FileInv, PacketInv, IsPacket

(* A receiver that puts a file together is not disturbed by what happens   *)
(* to other sources.                                                       *)
LEMMA CopiesKept ==
    ASSUME NEW n \in Node, NEW s, CopiesWell(n), receiver[n].packet.source = s,
           receiver'[n] = receiver[n], command'[s] = command[s],
           final'[s] = final[s],
           {f \in tmp : f.source = s}' = {f \in tmp : f.source = s}
    PROVE  CopiesWell(n)'
<1>1. \A i : InTmp(s, i)' = InTmp(s, i)
  BY DEF InTmp
<1> QED
  BY <1>1 DEF CopiesWell, Cur

LEMMA InitFile == Init => FileInv
<1> SUFFICES ASSUME Init PROVE FileInv
  OBVIOUS
<1>1. TypeInv
  BY InitType
<1>2. CommandInv
  BY DEF Init, CommandInv, Cur
<1>3. PacketInv /\ CopyInv
  BY DEF Init, PacketInv, CopyInv, Idle
<1>4. TmpInv
  BY DEF Init, TmpInv
<1> QED
  BY <1>1, <1>2, <1>3, <1>4 DEF FileInv
-----------------------------------------------------------------------------
(* The steps of FileInv.                                                   *)

LEMMA SendFileStep ==
    ASSUME FileInv, TypeInv', NEW s \in Node, NEW t \in Transfer,
           SendFile(s, t), Fresh(s)
    PROVE  FileInv'
<1>1. /\ command'[s] = [transfer |-> t, next |-> 1, buffer |-> Blank]
      /\ \A u \in Node \ {s} : command'[u] = command[u]
      /\ SourceOf[t] = s /\ issued' = issued \cup {t}
      /\ UNCHANGED <<network, receiver, tmp, final>>
  BY DEF SendFile, FileInv, TypeInv, TypeOK
<1>2. CommandInv'
  <2>1. FragCount(t) \in Nat
    BY FragCountProperties
  <2>2. 1 \in 1 .. FragCount(t) + 1
    BY <2>1
  <2> QED
    BY <1>1, <2>2 DEF FileInv, CommandInv, Cur
<1>3. \A u \in Node \ {s} : /\ Cur(u)' = Cur(u)
                            /\ command[u].next \in Nat /\ command'[u].next \in Nat
                            /\ command[u].next <= command'[u].next
  BY <1>1, PacketTypes DEF Cur
<1>4. PacketInv'
  <2>1. \A d \in network : IsPacket(d.packet)'
    <3> SUFFICES ASSUME NEW d \in network PROVE IsPacket(d.packet)'
      OBVIOUS
    <3>1. IsPacket(d.packet) /\ d.packet.source \in Node \ {s}
      BY PacketTypes DEF Fresh
    <3> QED
      BY <1>3, <3>1, PacketKept
  <2>2. ASSUME NEW n \in Node, receiver[n].stage # "idle"
        PROVE  IsPacket(receiver[n].packet)'
    <3> DEFINE p == receiver[n].packet
    <3>1. IsPacket(p) /\ p.source \in Node \ {s} /\ p' = p
      BY <1>1, <2>2, PacketTypes DEF Fresh, Handling
    <3> QED
      BY <1>1, <1>3, <3>1, PacketKept DEF IsPacket, IsFragment
  <2> QED
    BY <1>1, <2>1, <2>2 DEF FileInv, PacketInv
<1>5. TmpInv'
  <2>1. ASSUME NEW f \in tmp PROVE IsFragment(f.source, f.number, f.data)'
    <3>1. IsFragment(f.source, f.number, f.data) /\ f.source \in Node \ {s}
      BY PacketTypes DEF Fresh
    <3> QED
      BY <1>3, <3>1, FragmentKept
  <2> QED
    BY <1>1, <2>1 DEF FileInv, TmpInv
<1>6. CopyInv'
  <2> SUFFICES ASSUME NEW n \in Node, receiver[n].stage = "copy"
               PROVE  CopiesWell(n)'
    BY <1>1 DEF CopyInv
  <2> DEFINE u == receiver[n].packet.source
  <2>1. u \in Node \ {s}
    BY PacketTypes DEF Fresh, Handling
  <2>2. CopiesWell(n)
    BY DEF FileInv, CopyInv
  <2> QED
    BY <1>1, <2>1, <2>2, CopiesKept
<1> QED
  BY <1>2, <1>4, <1>5, <1>6 DEF FileInv

LEMMA NextPacketIsPacket ==
    ASSUME CountsFit, FileInv, NEW s \in Node, SendFragment(s)
    PROVE  /\ \A p : p = NextPacket(s) => IsPacket(p)'
           /\ NextPacket(s).source = s
           /\ NextPacket(s).number = command[s].next
           /\ command[s].next \in 1 .. FragCount(Cur(s))
           /\ Cur(s) \in Transfer
           /\ command'[s].transfer = Cur(s)
           /\ command'[s].next = command[s].next + 1
<1> DEFINE t == command[s].transfer
           n == command[s].next
           p == NextPacket(s)
<1>1. /\ t \in Transfer /\ n \in Nat \ {0} /\ n <= FragCount(t)
      /\ FragCount(t) \in Nat /\ FragCount(t) < Numbers /\ Numbers \in Nat
  BY SendFragmentType, FragCountProperties, TransferAssumption
     DEF FileInv, SendFragment, Sending, CountsFit
<1>2. n % Numbers = n /\ FragCount(t) % Numbers = FragCount(t)
  <2>1. n \in Nat /\ n < Numbers
    BY <1>1
  <2> HIDE DEF n
  <2>2. n % Numbers = n
    BY <1>1, <2>1, Modulo
  <2>3. FragCount(t) % Numbers = FragCount(t)
    BY <1>1, Modulo
  <2> QED
    BY <2>2, <2>3
<1>3. /\ command'[s].transfer = t /\ command'[s].next = n + 1
  BY DEF SendFragment, FileInv, TypeInv, TypeOK
<1>4. /\ p.source = s /\ p.number = n /\ p.target = TargetOf[t]
      /\ p.count = FragCount(t)
      /\ p.data = ReadFragment(t, n, command[s].buffer)
  BY <1>2 DEF NextPacket
<1>5. \A k \in 1 .. FragmentSize : (n - 1) * FragmentSize + k <= Size[t] =>
        p.data[k] = <<t, (n - 1) * FragmentSize + k>>
  BY <1>4 DEF ReadFragment
<1>6. n \in 1 .. (n + 1) - 1
  BY <1>1
<1>7. t # NoTransfer
  BY <1>1, TransferAssumption
<1> HIDE DEF p
<1>8. ASSUME NEW q, q = p PROVE IsPacket(q)'
  BY <1>3, <1>4, <1>5, <1>6, <1>7, <1>8 DEF IsPacket, IsFragment, Cur
<1> QED
  BY <1>1, <1>3, <1>4, <1>8 DEF p, Cur

LEMMA SendFragmentStep ==
    ASSUME CountsFit, FileInv, TypeInv', NEW s \in Node, SendFragment(s)
    PROVE  FileInv'
<1> DEFINE q == NextPacket(s)
<1>1. /\ \A u \in Node \ {s} : command'[u] = command[u]
      /\ UNCHANGED <<issued, receiver, tmp, final>>
  BY DEF SendFragment, FileInv, TypeInv, TypeOK
<1>2. PICK hop : network' = network \cup {[packet |-> q, to |-> hop, copy |-> 0]}
  BY DEF SendFragment, NextPacket
<1>3. /\ \A p : p = q => IsPacket(p)'
      /\ q.source = s
      /\ Cur(s)' = Cur(s)
      /\ command'[s].next = command[s].next + 1
      /\ command[s].next \in 1 .. FragCount(Cur(s))
      /\ FragCount(Cur(s)) \in Nat
  BY NextPacketIsPacket, FragCountProperties DEF Cur
<1>4. \A u \in Node : /\ Cur(u)' = Cur(u)
                      /\ command[u].next \in Nat /\ command'[u].next \in Nat
                      /\ command[u].next <= command'[u].next
  BY <1>1, <1>3, PacketTypes DEF Cur
<1> HIDE DEF q
<1>5. CommandInv'
  <2>1. command'[s].next \in 1 .. FragCount(Cur(s)) + 1
    BY <1>3
  <2> QED
    BY <1>1, <1>3, <1>4, <2>1 DEF FileInv, CommandInv, Cur
<1>6. PacketInv'
  <2>1. \A d \in network : IsPacket(d.packet)'
    BY <1>4, PacketTypes, PacketKept
  <2>2. \A d \in network' : IsPacket(d.packet)'
    <3> SUFFICES ASSUME NEW d \in network' PROVE IsPacket(d.packet)'
      OBVIOUS
    <3> QED
      BY <1>2, <1>3, <2>1
  <2>3. ASSUME NEW n \in Node, receiver[n].stage # "idle"
        PROVE  IsPacket(receiver[n].packet)'
    <3> DEFINE p == receiver[n].packet
    <3>1. IsPacket(p) /\ p.source \in Node /\ p' = p
      BY <1>1, <2>3, PacketTypes
    <3> QED
      BY <1>1, <1>4, <3>1, PacketKept DEF IsPacket, IsFragment
  <2> QED
    BY <1>1, <2>2, <2>3 DEF FileInv, PacketInv
<1>7. TmpInv'
  <2>1. ASSUME NEW f \in tmp PROVE IsFragment(f.source, f.number, f.data)'
    BY <1>4, PacketTypes, FragmentKept
  <2> QED
    BY <1>1, <2>1 DEF FileInv, TmpInv
<1>8. CopyInv'
  <2> SUFFICES ASSUME NEW n \in Node, receiver[n].stage = "copy"
               PROVE  CopiesWell(n)'
    BY <1>1 DEF CopyInv
  <2> DEFINE u == receiver[n].packet.source
  <2>1. CopiesWell(n) /\ u \in Node /\ IsPacket(receiver[n].packet)
    BY PacketTypes DEF FileInv, CopyInv
  <2>2. u # s
    <3> SUFFICES ASSUME u = s PROVE FALSE
      OBVIOUS
    <3>1. command[s].next = FragCount(Cur(s)) + 1
      BY <2>1 DEF CopiesWell, IsPacket
    <3> QED
      BY <1>3, <3>1
  <2> QED
    BY <1>1, <2>1, <2>2, CopiesKept
<1> QED
  BY <1>5, <1>6, <1>7, <1>8 DEF FileInv

(* Steps of the network and the first two of a receiver.                   *)
LEMMA TravelStep ==
    ASSUME FileInv, TypeInv',
           \/ Lose
           \/ Duplicate
           \/ \E n \in Node : Forward(n) \/ Receive(n)
    PROVE  FileInv'
<1>1. UNCHANGED <<command, issued, tmp, final>>
  BY DEF Lose, Duplicate, Forward, Receive
<1>2. \A d \in network' : \E e \in network : d.packet = e.packet
  <2>1. CASE Lose
    BY <2>1 DEF Lose
  <2>2. CASE Duplicate
    <3>1. PICK e \in network : network' = network \cup {[e EXCEPT !.copy = copies']}
      BY <2>2 DEF Duplicate
    <3>2. [e EXCEPT !.copy = copies'].packet = e.packet
      BY DEF FileInv, TypeInv, TypeOK, Datagram
    <3> QED
      BY <3>1, <3>2
  <2>3. ASSUME NEW n \in Node, Forward(n)
        PROVE  \A d \in network' : \E e \in network : d.packet = e.packet
    <3>1. PICK e \in network :
            network' = (network \ {e}) \cup {[e EXCEPT !.to = e.packet.target]}
      BY <2>3 DEF Forward
    <3>2. [e EXCEPT !.to = e.packet.target].packet = e.packet
      BY DEF FileInv, TypeInv, TypeOK, Datagram
    <3> QED
      BY <3>1, <3>2
  <2>4. ASSUME NEW n \in Node, Receive(n)
        PROVE  \A d \in network' : \E e \in network : d.packet = e.packet
    BY <2>4 DEF Receive
  <2> QED
    BY <2>1, <2>2, <2>3, <2>4
<1>3. \A d \in network' : IsPacket(d.packet)
  BY <1>2, PacketTypes
<1>4. \A n \in Node : \/ receiver'[n] = receiver[n]
                      \/ /\ receiver[n].stage = "idle"
                         /\ receiver'[n].stage = "write"
                         /\ receiver'[n].packet.target = n
                         /\ IsPacket(receiver'[n].packet)
  <2>1. CASE UNCHANGED receiver
    BY <2>1
  <2>2. ASSUME NEW m \in Node, Receive(m)
        PROVE  \A n \in Node : \/ receiver'[n] = receiver[n]
                               \/ /\ receiver[n].stage = "idle"
                                  /\ receiver'[n].stage = "write"
                                  /\ receiver'[n].packet.target = n
                                  /\ IsPacket(receiver'[n].packet)
    <3>1. PICK d \in network : /\ d.packet.target = m
                               /\ receiver[m] = Idle
                               /\ receiver' = [receiver EXCEPT ![m] = Writing(d.packet)]
      BY <2>2 DEF Receive
    <3>2. IsPacket(d.packet)
      BY PacketTypes
    <3>3. receiver \in [Node -> ReceiverState]
      BY ReceiverTypes DEF FileInv, TypeInv
    <3> QED
      BY <3>1, <3>2, <3>3 DEF Writing, Idle
  <2> QED
    BY <2>1, <2>2 DEF Lose, Duplicate, Forward
<1>5. PacketInv'
  <2>1. \A d \in network' : IsPacket(d.packet)'
    BY <1>1, <1>3, SameCommand
  <2>2. \A n \in Node : receiver'[n].stage # "idle" =>
          IsPacket(receiver'[n].packet) /\ receiver'[n].packet.target = n
    BY <1>4, PacketTypes
  <2>3. \A n \in Node : IsPacket(receiver'[n].packet) => IsPacket(receiver[n].packet)'
    BY <1>1 DEF IsPacket, IsFragment, Cur
  <2> QED
    BY <2>1, <2>2, <2>3 DEF PacketInv
<1>6. CopyInv'
  <2> SUFFICES ASSUME NEW n \in Node, receiver'[n].stage = "copy"
               PROVE  CopiesWell(n)'
    BY DEF CopyInv
  <2>1. receiver'[n] = receiver[n]
    BY <1>4
  <2> QED
    BY <1>1, <2>1, CopiesKept DEF FileInv, CopyInv
<1>7. CommandInv' /\ TmpInv'
  BY <1>1, SameCommand DEF FileInv, CommandInv, TmpInv, Cur
<1> QED
  BY <1>5, <1>6, <1>7 DEF FileInv

LEMMA WriteToFileStep ==
    ASSUME FileInv, TypeInv', NEW n \in Node, WriteToFile(n)
    PROVE  FileInv'
<1> DEFINE p == receiver[n].packet
           s == p.source
           new == [source |-> p.source, number |-> p.number, data |-> p.data]
<1>1. /\ UNCHANGED <<command, issued, network, final>>
      /\ tmp' = (tmp \ Fragments(s, p.number)) \cup {new}
      /\ receiver' = [receiver EXCEPT ![n] = Counting(p)]
      /\ receiver[n].stage = "write"
  BY DEF WriteToFile
<1>2. p \in Packet /\ IsPacket(p) /\ p.target = n /\ s \in Node
  BY <1>1, PacketTypes
<1>3. /\ receiver'[n].stage = "count" /\ receiver'[n].packet = p
      /\ \A m \in Node \ {n} : receiver'[m] = receiver[m]
  BY <1>1, ReceiverTypes DEF FileInv, TypeInv, Counting
<1>4. new.source = s /\ new.number = p.number /\ new.data = p.data
  OBVIOUS
<1> HIDE DEF p, new
<1>5. PacketInv'
  <2>1. \A d \in network' : IsPacket(d.packet)'
    BY <1>1, PacketTypes, SameCommand
  <2>2. \A m \in Node : receiver'[m].stage # "idle" =>
          IsPacket(receiver'[m].packet) /\ receiver'[m].packet.target = m
    BY <1>2, <1>3, PacketTypes
  <2>3. \A m \in Node : IsPacket(receiver'[m].packet) => IsPacket(receiver[m].packet)'
    BY <1>1 DEF IsPacket, IsFragment, Cur
  <2> QED
    BY <2>1, <2>2, <2>3 DEF PacketInv
<1>6. TmpInv'
  <2>1. \A f \in tmp' : f \in tmp \/ f = new
    BY <1>1
  <2>2. \A f \in tmp' : IsFragment(f.source, f.number, f.data)
    BY <1>2, <1>4, <2>1, PacketTypes DEF IsPacket
  <2>3. \A f \in tmp' : f.source = s /\ f.number = p.number => f = new
    BY <1>1 DEF Fragments
  <2>4. \A f, g \in tmp' : f.source = g.source /\ f.number = g.number => f = g
    BY <1>4, <2>1, <2>3 DEF FileInv, TmpInv
  <2> QED
    BY <1>1, <2>2, <2>4, SameCommand DEF TmpInv
<1>7. CopyInv'
  <2> SUFFICES ASSUME NEW m \in Node, receiver'[m].stage = "copy"
               PROVE  CopiesWell(m)'
    BY DEF CopyInv
  <2> DEFINE u == receiver[m].packet.source
  <2>1. m # n /\ receiver'[m] = receiver[m] /\ CopiesWell(m)
    BY <1>3 DEF FileInv, CopyInv
  <2>2. u # s
    BY <1>1, <1>3, <2>1, OneReceiver DEF p
  <2>3. {f \in tmp' : f.source = u} = {f \in tmp : f.source = u}
    BY <1>1, <1>4, <2>2 DEF Fragments
  <2>4. {f \in tmp : f.source = u}' = {f \in tmp' : f.source = u}
    BY <2>1
  <2> QED
    BY <1>1, <2>1, <2>3, <2>4, CopiesKept
<1>8. CommandInv'
  BY <1>1 DEF FileInv, CommandInv, Cur
<1> QED
  BY <1>5, <1>6, <1>7, <1>8 DEF FileInv

(***************************************************************************)
(* reassembleFile counts right: the number of the source's fragments is    *)
(* that of the packet exactly when all fragments of the file are there.    *)
(***************************************************************************)
LEMMA CountIsRight ==
    ASSUME OwnNames, FileInv, NEW n \in Node, receiver[n].stage # "idle",
           NEW total,
           total = Cardinality({f \in tmp : f.source \in SamePrefix[receiver[n].packet.source]})
    PROVE  IsComplete(receiver[n].packet, total)
             <=> \A i \in 1 .. FragCount(Cur(receiver[n].packet.source)) :
                   InTmp(receiver[n].packet.source, i)
<1> DEFINE p == receiver[n].packet
           s == p.source
           F == FragCount(Cur(s))
           K == {f \in tmp : f.source = s}
           number == [f \in K |-> f.number]
<1>1. s \in Node /\ IsPacket(p) /\ p.count = F
  BY PacketTypes DEF IsPacket
<1>2. F \in Nat
  BY <1>1, PacketNumbers DEF IsPacket
<1>3. {f \in tmp : f.source \in SamePrefix[s]} = K
  <2>1. s \in SamePrefix[s]
    BY <1>1, TransferAssumption
  <2>2. ASSUME NEW f \in tmp, f.source \in SamePrefix[s] PROVE f.source = s
    <3>1. Cur(f.source) \in Transfer /\ SourceOf[Cur(f.source)] = f.source
      BY PacketTypes, PacketNumbers
    <3>2. Cur(s) \in Transfer /\ SourceOf[Cur(s)] = s
      BY <1>1, PacketNumbers DEF IsPacket
    <3> QED
      BY <2>2, <3>1, <3>2 DEF OwnNames
  <2> QED
    BY <2>1, <2>2
<1> HIDE DEF F, p
<1>4. \A f \in K : f.number \in 1 .. F
  BY <1>1, PacketTypes, PacketNumbers DEF F
<1>5. number \in Injection(K, 1 .. F)
  BY <1>4 DEF Injection, IsInjective, FileInv, TmpInv
<1>6. IsFiniteSet(1 .. F) /\ Cardinality(1 .. F) = F
  BY <1>2, FS_Interval
<1>7. Cardinality(K) = F <=> number \in Surjection(K, 1 .. F)
  BY <1>5, <1>6, FS_Injection
<1>8. number \in Surjection(K, 1 .. F) <=> \A i \in 1 .. F : InTmp(s, i)
  BY <1>5 DEF Injection, Surjection, InTmp
<1>9. total = Cardinality(K)
  BY <1>3 DEF p
<1>10. IsComplete(p, total) <=> \A i \in 1 .. F : InTmp(s, i)
  BY <1>1, <1>7, <1>8, <1>9 DEF IsComplete
<1> QED
  BY <1>10 DEF F, p

LEMMA CountFragmentsStep ==
    ASSUME OwnNames, FileInv, TypeInv', NEW n \in Node, CountFragments(n),
           NEW s, s = receiver[n].packet.source
    PROVE  FileInv'
<1> DEFINE p == receiver[n].packet
           F == FragCount(Cur(s))
           total == Cardinality({f \in tmp : f.source \in SamePrefix[p.source]})
<1>1. /\ UNCHANGED <<command, issued, network, tmp>>
      /\ receiver[n].stage = "count"
      /\ \/ /\ IsComplete(p, total)
            /\ receiver' = [receiver EXCEPT ![n] = Copying(p, total, 1, TRUE)]
            /\ final' = [final EXCEPT ![s] = <<>>]
         \/ /\ receiver' = [receiver EXCEPT ![n] = Idle]
            /\ UNCHANGED final
  BY DEF CountFragments
<1>2. p \in Packet /\ IsPacket(p) /\ p.target = n /\ s \in Node /\ p.source = s
  BY <1>1, PacketTypes
<1>3. IsComplete(p, total) => \A i \in 1 .. F : InTmp(s, i)
  BY <1>1, CountIsRight
<1> HIDE DEF p, total, F
<1>4. /\ \A m \in Node \ {n} : receiver'[m] = receiver[m]
      /\ receiver'[n].stage # "idle" =>
           /\ IsComplete(p, total)
           /\ receiver'[n] = Copying(p, total, 1, TRUE)
           /\ final'[s] = <<>>
      /\ \A u \in Node \ {s} : final'[u] = final[u]
  <2>1. /\ receiver \in [Node -> ReceiverState] /\ final \in [Node -> Seq(Chunk)]
        /\ Idle.stage = "idle"
    BY ReceiverTypes DEF FileInv, TypeInv, TypeOK, Idle
  <2>2. CASE /\ receiver' = [receiver EXCEPT ![n] = Copying(p, total, 1, TRUE)]
             /\ final' = [final EXCEPT ![s] = <<>>]
             /\ IsComplete(p, total)
    BY <1>2, <2>1, <2>2
  <2>3. CASE receiver' = [receiver EXCEPT ![n] = Idle] /\ UNCHANGED final
    BY <1>2, <2>1, <2>3
  <2> QED
    BY <1>1, <2>2, <2>3
<1>5. PacketInv'
  <2>1. \A d \in network' : IsPacket(d.packet)'
    BY <1>1, PacketTypes, SameCommand
  <2>2. \A m \in Node : receiver'[m].stage # "idle" =>
          IsPacket(receiver'[m].packet) /\ receiver'[m].packet.target = m
    BY <1>2, <1>4, PacketTypes DEF Copying
  <2>3. \A m \in Node : IsPacket(receiver'[m].packet) => IsPacket(receiver[m].packet)'
    BY <1>1 DEF IsPacket, IsFragment, Cur
  <2> QED
    BY <2>1, <2>2, <2>3 DEF PacketInv
<1>6. CopyInv'
  <2>1. ASSUME receiver'[n].stage = "copy" PROVE CopiesWell(n)'
    <3>1. /\ IsComplete(p, total) /\ receiver'[n] = Copying(p, total, 1, TRUE)
          /\ final'[s] = <<>>
      BY <1>4, <2>1
    <3>2. /\ receiver'[n].good = TRUE /\ receiver'[n].total = total
          /\ receiver'[n].next = 1 /\ receiver'[n].packet = p
      BY <3>1 DEF Copying
    <3>3. total = F /\ p.count = F /\ F \in Nat \ {0}
      BY <1>2, <3>1, PacketNumbers DEF IsComplete, IsPacket, F
    <3>4. command[s].next = F + 1
      <4>1. InTmp(s, F)
        BY <1>3, <3>1, <3>3
      <4>2. PICK f \in tmp : f.source = s /\ f.number = F
        BY <4>1 DEF InTmp
      <4>3. F < command[s].next /\ command[s].next \in 1 .. F + 1
        BY <1>2, <4>2, PacketTypes, PacketNumbers DEF F
      <4> QED
        BY <3>3, <4>3
    <3>5. \A i \in 1 .. F : InTmp(s, i)'
      BY <1>1, <1>3, <3>1 DEF InTmp
    <3>6. /\ Len(final'[s]) = (1 - 1) * FragmentSize /\ DOMAIN final'[s] = {}
      <4>1. FragmentSize \in Nat
        BY TransferAssumption
      <4>2. (1 - 1) * FragmentSize = 0
        BY <4>1
      <4> QED
        BY <3>1, <4>2, EmptySeq
    <3>7. \A i \in 1 .. F : 1 <= i
      OBVIOUS
    <3>8. 1 \in 1 .. F + 1 /\ command'[s].next = F + 1
      BY <1>1, <3>3, <3>4
    <3>9. receiver'[n].packet.source = s
      BY <3>2 DEF p
    <3> QED
      BY <3>2, <3>3, <3>5, <3>6, <3>7, <3>8, <3>9 DEF CopiesWell
  <2>2. ASSUME NEW m \in Node \ {n}, receiver'[m].stage = "copy"
        PROVE  CopiesWell(m)'
    <3> DEFINE u == receiver[m].packet.source
    <3>1. receiver'[m] = receiver[m] /\ CopiesWell(m)
      BY <1>4, <2>2 DEF FileInv, CopyInv
    <3>2. u # s /\ u \in Node
      BY <1>1, <2>2, <3>1, OneReceiver, PacketTypes DEF p
    <3> QED
      BY <1>1, <1>4, <3>1, <3>2, CopiesKept
  <2> QED
    BY <2>1, <2>2 DEF CopyInv
<1>7. CommandInv' /\ TmpInv'
  BY <1>1, SameCommand DEF FileInv, CommandInv, TmpInv, Cur
<1> QED
  BY <1>5, <1>6, <1>7 DEF FileInv

LEMMA CopyFragmentStep ==
    ASSUME FileInv, TypeInv', NEW n \in Node, CopyFragment(n),
           NEW s, s = receiver[n].packet.source
    PROVE  FileInv'
<1> DEFINE r == receiver[n]
           p == r.packet
           F == FragCount(Cur(s))
           i == r.next
           length == (i - 1) * FragmentSize
           found == {f.data : f \in Fragments(p.source, r.next)}
<1>1. /\ UNCHANGED <<command, issued, network>>
      /\ r.stage = "copy"
      /\ ~Copied(r)
      /\ tmp' = tmp \ Fragments(s, i)
  BY DEF CopyFragment, RemoveFragment
<1>2. /\ p \in Packet /\ IsPacket(p) /\ p.target = n
      /\ s \in Node /\ p.source = s /\ CopiesWell(n)
  BY <1>1, PacketTypes DEF FileInv, CopyInv
<1>3. /\ r.good /\ r.total = F /\ F \in Nat /\ i \in 1 .. F
      /\ command[s].next = F + 1
      /\ \A k \in 1 .. F : InTmp(s, k) <=> i <= k
      /\ Len(final[s]) = length
      /\ \A j \in DOMAIN final[s] : j <= Size[Cur(s)] => final[s][j] = <<Cur(s), j>>
  <2>1. p.count = F /\ F \in Nat
    BY <1>2, PacketNumbers DEF IsPacket
  <2>2. /\ r.good /\ r.total = F /\ i \in 1 .. F + 1
        /\ command[s].next = F + 1
        /\ \A k \in 1 .. F : InTmp(s, k) <=> i <= k
        /\ Len(final[s]) = length
        /\ \A j \in DOMAIN final[s] : j <= Size[Cur(s)] => final[s][j] = <<Cur(s), j>>
    BY <1>2, <2>1 DEF CopiesWell
  <2>3. i <= F
    BY <1>1, <2>1, <2>2 DEF Copied
  <2> HIDE DEF r, p, F
  <2> QED
    BY <2>1, <2>2, <2>3
<1>4. found # {}
  <2>1. InTmp(s, i)
    BY <1>3
  <2>2. PICK f \in tmp : f.source = s /\ f.number = i
    BY <2>1 DEF InTmp
  <2>3. f \in Fragments(p.source, r.next)
    BY <2>2 DEF Fragments
  <2> QED
    BY <2>3
<1>5. PICK data \in found : final' = [final EXCEPT ![s] = @ \o data]
  BY <1>3, <1>4 DEF CopyFragment
<1>6. receiver' = [receiver EXCEPT ![n] =
                     Copying(p, r.total, i + 1, r.good /\ found # {})]
  BY DEF CopyFragment
<1>7. PICK f \in tmp : f.source = s /\ f.number = i /\ f.data = data
  BY <1>5 DEF Fragments
<1>8. /\ data \in FragmentData
      /\ \A k \in 1 .. FragmentSize : length + k <= Size[Cur(s)] =>
           data[k] = <<Cur(s), length + k>>
  <2>1. f.data \in FragmentData
    BY DEF FileInv, TypeInv, TypeOK
  <2>2. IsFragment(s, i, data)
    BY <1>7, PacketTypes
  <2> HIDE DEF i
  <2>3. \A k \in 1 .. FragmentSize : length + k <= Size[Cur(s)] =>
           data[k] = <<Cur(s), length + k>>
    BY <2>2 DEF IsFragment
  <2> QED
    BY <1>7, <2>1, <2>3
<1> HIDE DEF found, F, p, i, length
<1>9. /\ \A m \in Node \ {n} : receiver'[m] = receiver[m]
      /\ receiver'[n].stage = "copy" /\ receiver'[n].packet = p
      /\ receiver'[n].total = F /\ receiver'[n].next = i + 1
      /\ receiver'[n].good
  BY <1>3, <1>4, <1>6, ReceiverTypes DEF FileInv, TypeInv, Copying
<1> HIDE DEF r
<1>10. /\ FragmentSize \in Nat \ {0} /\ length \in Nat
       /\ i * FragmentSize = length + FragmentSize
  <2>1. FragmentSize \in Nat \ {0} /\ i \in Nat \ {0}
    BY <1>3, TransferAssumption
  <2> QED
    BY <2>1 DEF length
<1>11. /\ Len(final'[s]) = length + FragmentSize
       /\ \A j \in DOMAIN final'[s] :
            j <= Size[Cur(s)] => final'[s][j] = <<Cur(s), j>>
  <2>1. /\ final[s] \in Seq(Chunk) /\ final'[s] = final[s] \o data
    BY <1>2, <1>5, PacketTypes DEF FileInv, TypeInv, TypeOK
  <2>2. data \in Seq(Chunk) /\ Len(data) = FragmentSize
    BY <1>8, <1>10, SeqDef, LenProperties DEF FragmentData
  <2>3. /\ Len(final'[s]) = length + FragmentSize
        /\ DOMAIN final'[s] = 1 .. length + FragmentSize
        /\ \A j \in 1 .. length + FragmentSize : final'[s][j] =
             IF j <= length THEN final[s][j] ELSE data[j - length]
    <3> DEFINE all == final[s] \o data
    <3>1. /\ Len(all) = length + FragmentSize
          /\ \A j \in 1 .. length + FragmentSize : all[j] =
               IF j <= length THEN final[s][j] ELSE data[j - length]
      <4>1. /\ Len(all) = Len(final[s]) + Len(data)
            /\ \A j \in 1 .. Len(final[s]) + Len(data) : all[j] =
                 IF j <= Len(final[s]) THEN final[s][j] ELSE data[j - Len(final[s])]
        BY <2>1, <2>2, ConcatProperties
      <4> HIDE DEF all
      <4> QED
        BY <1>3, <2>2, <4>1
    <3>2. DOMAIN all = 1 .. Len(all)
      BY <2>1, <2>2, ConcatProperties, LenProperties
    <3> HIDE DEF all
    <3> QED
      BY <2>1, <3>1, <3>2 DEF all
  <2>4. ASSUME NEW j \in 1 .. length + FragmentSize, j <= Size[Cur(s)]
        PROVE  final'[s][j] = <<Cur(s), j>>
    <3>1. CASE j <= length
      <4>1. j \in DOMAIN final[s]
        BY <1>3, <1>10, <2>1, <3>1, LenProperties
      <4> QED
        BY <1>3, <2>3, <2>4, <3>1, <4>1
    <3>2. CASE j > length
      <4> DEFINE k == j - length
      <4>1. k \in 1 .. FragmentSize /\ length + k = j
        BY <1>10, <3>2
      <4>2. data[k] = <<Cur(s), length + k>>
        BY <1>8, <2>4, <4>1
      <4>3. final'[s][j] = data[k]
        BY <1>10, <2>3, <3>2
      <4> HIDE DEF k
      <4> QED
        BY <4>1, <4>2, <4>3
    <3> QED
      BY <1>10, <3>1, <3>2
  <2> QED
    BY <2>3, <2>4
<1>12. \A k \in 1 .. F : InTmp(s, k)' <=> i + 1 <= k
  <2>1. \A k \in 1 .. F : InTmp(s, k)' <=> InTmp(s, k) /\ k # i
    BY <1>1 DEF InTmp, Fragments
  <2>2. i \in Nat /\ \A k \in 1 .. F : k \in Nat
    BY <1>3
  <2>3. \A k \in 1 .. F : i + 1 <= k <=> i <= k /\ k # i
    BY <2>2
  <2> QED
    BY <1>3, <2>1, <2>3
<1>13. CopyInv'
  <2>1. CopiesWell(n)'
    <3>1. i + 1 \in 1 .. F + 1
      BY <1>3
    <3>2. command'[s].next = F + 1
      BY <1>1, <1>3
    <3>3. p.count = F /\ Cur(s)' = Cur(s)
      BY <1>1, <1>2 DEF IsPacket, F, Cur
    <3>4. receiver'[n].packet.source = s
      BY <1>9 DEF p, r
    <3>5. Len(final'[s]) = (receiver'[n].next - 1) * FragmentSize
      <4>1. receiver'[n].next - 1 = i
        BY <1>3, <1>9
      <4>2. Len(final'[s]) = i * FragmentSize
        BY <1>10, <1>11
      <4> QED
        BY <4>1, <4>2
    <3>6. \A j \in DOMAIN final'[s] :
            j <= Size[Cur(s)'] => final'[s][j] = <<Cur(s)', j>>
      BY <1>11, <3>3
    <3>7. \A k \in 1 .. F : InTmp(receiver[n].packet.source, k)' <=> i + 1 <= k
      BY <1>12, <3>4 DEF InTmp
    <3>8. \A j \in DOMAIN final'[s] :
            j <= Size[Cur(receiver[n].packet.source)'] =>
              final'[s][j] = <<Cur(receiver[n].packet.source)', j>>
      BY <3>4, <3>6 DEF Cur
    <3>9. receiver'[n].packet.count = F
      BY <1>9, <3>3
    <3> QED
      BY <1>9, <3>1, <3>2, <3>4, <3>5, <3>7, <3>8, <3>9 DEF CopiesWell
  <2>2. ASSUME NEW m \in Node \ {n}, receiver'[m].stage = "copy"
        PROVE  CopiesWell(m)'
    <3> DEFINE u == receiver[m].packet.source
    <3>1. receiver'[m] = receiver[m] /\ CopiesWell(m)
      BY <1>9, <2>2 DEF FileInv, CopyInv
    <3>2. u # s /\ u \in Node
      BY <1>1, <2>2, <3>1, OneReceiver, PacketTypes DEF p, r
    <3>3. final'[u] = final[u]
      BY <1>5, <3>2 DEF FileInv, TypeInv, TypeOK
    <3>4. {g \in tmp' : g.source = u} = {g \in tmp : g.source = u}
      BY <1>1, <3>2 DEF Fragments
    <3>5. {g \in tmp : g.source = u}' = {g \in tmp' : g.source = u}
      BY <3>1
    <3> QED
      BY <1>1, <3>1, <3>3, <3>4, <3>5, CopiesKept
  <2> QED
    BY <2>1, <2>2 DEF CopyInv
<1>14. PacketInv'
  <2>1. \A d \in network' : IsPacket(d.packet)'
    BY <1>1, PacketTypes, SameCommand
  <2>2. \A m \in Node : receiver'[m].stage # "idle" =>
          IsPacket(receiver'[m].packet) /\ receiver'[m].packet.target = m
    BY <1>2, <1>9, PacketTypes
  <2>3. \A m \in Node : IsPacket(receiver'[m].packet) => IsPacket(receiver[m].packet)'
    BY <1>1 DEF IsPacket, IsFragment, Cur
  <2> QED
    BY <2>1, <2>2, <2>3 DEF PacketInv
<1>15. CommandInv' /\ TmpInv'
  BY <1>1, SameCommand DEF FileInv, CommandInv, TmpInv, Cur
<1> QED
  BY <1>13, <1>14, <1>15 DEF FileInv

LEMMA CloseFileStep ==
    ASSUME FileInv, TypeInv', NEW n \in Node, CloseFile(n)
    PROVE  FileInv'
<1>1. /\ UNCHANGED <<command, issued, network, tmp, final>>
      /\ receiver'[n].stage = "idle"
      /\ \A m \in Node \ {n} : receiver'[m] = receiver[m]
  BY ReceiverTypes DEF CloseFile, FileInv, TypeInv, Idle
<1>2. CopyInv'
  BY <1>1, CopiesKept DEF CopyInv, FileInv
<1>3. PacketInv'
  <2>1. \A d \in network' : IsPacket(d.packet)'
    BY <1>1, PacketTypes, SameCommand
  <2>2. \A m \in Node : receiver'[m].stage # "idle" =>
          IsPacket(receiver'[m].packet) /\ receiver'[m].packet.target = m
    BY <1>1, PacketTypes
  <2>3. \A m \in Node : IsPacket(receiver'[m].packet) => IsPacket(receiver[m].packet)'
    BY <1>1 DEF IsPacket, IsFragment, Cur
  <2> QED
    BY <2>1, <2>2, <2>3 DEF PacketInv
<1>4. CommandInv' /\ TmpInv'
  BY <1>1, SameCommand DEF FileInv, CommandInv, TmpInv, Cur
<1> QED
  BY <1>2, <1>3, <1>4 DEF FileInv

LEMMA FileStep ==
    ASSUME OwnNames, CountsFit, FileInv, [Next]_vars,
           \A s \in Node, t \in Transfer : SendFile(s, t) => Fresh(s)
    PROVE  FileInv'
<1>1. TypeInv'
  BY TypeStep DEF FileInv
<1>2. CASE UNCHANGED vars
  <2>1. UNCHANGED <<command, issued, network, receiver, tmp, final>>
    BY <1>2 DEF vars
  <2>2. CommandInv' /\ TmpInv'
    BY <2>1, SameCommand DEF FileInv, CommandInv, TmpInv, Cur
  <2>3. PacketInv'
    BY <2>1 DEF FileInv, PacketInv, IsPacket, IsFragment, Cur
  <2>4. CopyInv'
    BY <2>1, CopiesKept DEF FileInv, CopyInv
  <2> QED
    BY <1>1, <2>2, <2>3, <2>4 DEF FileInv
<1> QED
  BY <1>1, <1>2, SendFileStep, SendFragmentStep, TravelStep, WriteToFileStep,
     CountFragmentsStep, CopyFragmentStep, CloseFileStep DEF Next, ReceiverThread
-----------------------------------------------------------------------------
(* What is put together is whole.                                          *)

LEMMA Beginning ==
    ASSUME NEW S, NEW a \in Seq(S), NEW b \in Seq(S), Len(a) <= Len(b),
           \A j \in 1 .. Len(a) : a[j] = b[j]
    PROVE  IsPrefix(a, b)
<1> DEFINE n == Len(a)
           u == SubSeq(a, 1, n)
           v == SubSeq(b, 1, n)
<1>1. n \in Nat /\ Len(b) \in Nat
  BY LenProperties
<1>2. \A j \in 1 .. n : j \in DOMAIN a /\ j \in DOMAIN b
  BY <1>1, LenProperties
<1>3. u = [j \in 1 .. n |-> a[j]] /\ v = [j \in 1 .. n |-> b[j]]
  BY <1>1, <1>2
<1>4. u = v
  BY <1>3
<1> QED
  BY <1>4 DEF IsPrefix

LEMMA CopiedWhole ==
    ASSUME FileInv, NEW n \in Node, receiver[n].stage = "copy", Copied(receiver[n]),
           NEW s, s = receiver[n].packet.source
    PROVE  /\ IsPrefix(File(Cur(s)), final[s])
           /\ FileOf(receiver[n].packet) = Cur(s)
           /\ s \in Node
           /\ ~Sending(s)
           /\ \A i \in 1 .. FragCount(Cur(s)) : ~InTmp(s, i)
<1> DEFINE p == receiver[n].packet
           t == Cur(s)
           F == FragCount(t)
<1>1. s \in Node /\ IsPacket(p) /\ CopiesWell(n) /\ final[s] \in Seq(Chunk)
  BY PacketTypes DEF FileInv, CopyInv
<1>2. /\ t \in Transfer /\ F \in Nat /\ p.number \in 1 .. F /\ p.count = F
  BY <1>1, PacketNumbers DEF IsPacket
<1>3. /\ FragmentSize \in Nat \ {0} /\ Size[t] \in Nat
      /\ Size[t] <= F * FragmentSize
      /\ (p.number - 1) * FragmentSize + 1 <= Size[t]
  BY <1>2, FragCountProperties, TransferAssumption
<1>4. receiver[n].next = F + 1
  <2>1. receiver[n].total = F /\ receiver[n].next \in 1 .. F + 1
    BY <1>1, <1>2 DEF CopiesWell
  <2> QED
    BY <1>2, <2>1 DEF Copied
<1>5. IsPrefix(File(t), final[s])
  <2> HIDE DEF F
  <2>1. receiver[n].next - 1 = F
    BY <1>2, <1>4
  <2>2. Len(final[s]) = (receiver[n].next - 1) * FragmentSize
    BY <1>1 DEF CopiesWell
  <2>3. Len(final[s]) = F * FragmentSize
    BY <2>1, <2>2
  <2>4. DOMAIN final[s] = 1 .. Len(final[s]) /\ Len(final[s]) \in Nat
    BY <1>1, LenProperties
  <2>5. \A j \in 1 .. Size[t] : final[s][j] = <<t, j>>
    <3>1. \A j \in 1 .. Size[t] : j \in DOMAIN final[s] /\ j <= Size[t]
      BY <1>3, <2>3, <2>4
    <3> QED
      BY <1>1, <3>1 DEF CopiesWell
  <2>6. File(t) \in Seq(Chunk) /\ Len(File(t)) = Size[t]
    <3>1. File(t) \in [1 .. Size[t] -> Chunk]
      BY <1>2, <1>3 DEF File, Chunk
    <3> QED
      BY <1>3, <3>1, SeqDef, LenProperties
  <2>7. \A j \in 1 .. Len(File(t)) : File(t)[j] = final[s][j]
    BY <2>5, <2>6 DEF File
  <2>8. Len(File(t)) <= Len(final[s])
    BY <1>3, <2>3, <2>6
  <2> QED
    BY <1>1, <2>6, <2>7, <2>8, Beginning
<1>6. FileOf(p) = t
  <2>1. 1 \in 1 .. FragmentSize
    BY <1>3
  <2>2. p.data[1] = <<t, (p.number - 1) * FragmentSize + 1>>
    BY <1>1, <1>3, <2>1 DEF IsPacket, IsFragment
  <2> QED
    BY <2>2 DEF FileOf
<1>7. ~Sending(s)
  <2>1. command[s].next = F + 1
    BY <1>1, <1>2 DEF CopiesWell
  <2> HIDE DEF F
  <2>2. Sending(s) => command[s].next <= F
    BY DEF Sending, Cur, F
  <2> QED
    BY <1>2, <2>1, <2>2
<1>8. \A i \in 1 .. F : ~InTmp(s, i)
  <2>1. \A i \in 1 .. F : InTmp(s, i) <=> F + 1 <= i
    BY <1>1, <1>2, <1>4 DEF CopiesWell
  <2> HIDE DEF F
  <2> QED
    BY <1>2, <2>1
<1> QED
  BY <1>1, <1>5, <1>6, <1>7, <1>8
-----------------------------------------------------------------------------
(* The steps of ReliableInv.  Each is about one source, its subject, and   *)
(* leaves what the others have sent alone.                                 *)

Unmoved(s) ==
    /\ command'[s] = command[s]
    /\ final'[s] = final[s]
    /\ DatagramsOf(s)' = DatagramsOf(s)
    /\ StoredOf(s)' = StoredOf(s)
    /\ \A n \in Node : Handling(n, s) \/ Handling(n, s)' => receiver'[n] = receiver[n]

(* What a reader of the final file cannot tell from no step at all.        *)
Rests(s) ==
    /\ Cur(s)' = Cur(s)
    /\ Settled(s)' <=> Settled(s)
    /\ Assembling(s)' <=> Assembling(s)
    /\ Assembling(s) \/ final'[s] = final[s]

LEMMA UnmovedKeeps ==
    ASSUME NEW s \in Node, Unmoved(s), Once(s), Account(s)
    PROVE  Once(s)' /\ Account(s)' /\ Rests(s)
<1>1. \A n \in Node : Handling(n, s)' <=> Handling(n, s)
  BY DEF Unmoved, Handling
<1>2. /\ Cur(s)' = Cur(s) /\ (Sending(s)' <=> Sending(s))
      /\ command'[s].next = command[s].next
      /\ DatagramsOf(s)' = DatagramsOf(s) /\ StoredOf(s)' = StoredOf(s)
  BY DEF Unmoved, Cur, Sending
<1>3. Once(s)'
  BY <1>1, <1>2 DEF Once, Unmoved
<1>4. \A i : InTmp(s, i)' <=> InTmp(s, i)
  <2>1. \A i : InTmp(s, i) <=> \E f \in StoredOf(s) : f.number = i
    BY DEF InTmp, StoredOf
  <2>2. \A i : InTmp(s, i)' <=> \E f \in StoredOf(s)' : f.number = i
    BY DEF InTmp, StoredOf
  <2> QED
    BY <1>2, <2>1, <2>2
<1>5. \A i : OnItsWay(s, i)' <=> OnItsWay(s, i)
  BY <1>1, <1>2 DEF OnItsWay, Unmoved
<1>6. Travelling(s)' <=> Travelling(s)
  BY <1>1, <1>2, <1>4, <1>5 DEF Travelling, Unmoved
<1>7. Assembling(s)' <=> Assembling(s)
  BY <1>1 DEF Assembling, Unmoved
<1>8. Fresh(s)' <=> Fresh(s)
  <2>1. Fresh(s) <=> /\ DatagramsOf(s) = {} /\ StoredOf(s) = {}
                     /\ \A n \in Node : ~Handling(n, s)
    BY DEF Fresh, DatagramsOf, StoredOf
  <2>2. Fresh(s)' <=> /\ DatagramsOf(s)' = {} /\ StoredOf(s)' = {}
                      /\ \A n \in Node : ~Handling(n, s)'
    BY DEF Fresh, DatagramsOf, StoredOf
  <2> QED
    BY <1>1, <1>2, <2>1, <2>2
<1>9. Settled(s)' <=> Settled(s)
  <2>1. Settled(s) <=> /\ ~Sending(s) /\ DatagramsOf(s) = {}
                       /\ \A n \in Node : ~Handling(n, s)
    BY DEF Settled, DatagramsOf
  <2>2. Settled(s)' <=> /\ ~Sending(s)' /\ DatagramsOf(s)' = {}
                        /\ \A n \in Node : ~Handling(n, s)'
    BY DEF Settled, DatagramsOf
  <2> QED
    BY <1>1, <1>2, <2>1, <2>2
<1>10. Account(s)'
  BY <1>2, <1>6, <1>7, <1>8 DEF Account, Finished
<1> QED
  BY <1>2, <1>3, <1>7, <1>9, <1>10 DEF Rests, Unmoved

(***************************************************************************)
(* Nothing of a source that has settled is left in /tmp: had all fragments *)
(* been stored, the last of them would have been counted.                  *)
(***************************************************************************)
LEMMA SettledIsFresh ==
    ASSUME FileInv, NEW s \in Node, Account(s), Settled(s)
    PROVE  Fresh(s)
<1>1. CASE Cur(s) = NoTransfer
  BY <1>1, PacketTypes DEF Fresh, Handling, IsPacket, IsFragment
<1>2. CASE Cur(s) # NoTransfer /\ Travelling(s)
  <2>1. Cur(s) \in Transfer /\ command[s].next \in Nat
    BY <1>2, PacketTypes
  <2>2. FragCount(Cur(s)) \in Nat /\ command[s].next > FragCount(Cur(s))
    BY <1>2, <2>1, FragCountProperties DEF Settled, Sending, Cur
  <2>3. \A i \in 1 .. FragCount(Cur(s)) : i \in 1 .. command[s].next - 1
    BY <2>1, <2>2
  <2>4. \A i : ~OnItsWay(s, i)
    BY DEF OnItsWay, Settled, DatagramsOf
  <2>5. \A i \in 1 .. FragCount(Cur(s)) : InTmp(s, i)
    BY <1>2, <2>3, <2>4 DEF Travelling
  <2> QED
    BY <1>2, <2>5 DEF Travelling, Settled
<1>3. CASE Assembling(s)
  BY <1>3 DEF Assembling, Settled
<1>4. CASE Finished(s)
  BY <1>4 DEF Finished
<1> QED
  BY <1>1, <1>2, <1>3, <1>4 DEF Account

(* Where a source stands whose packets are still about.                    *)
LEMMA StillTravelling ==
    ASSUME ReliableInv, NEW s \in Node, Cur(s) # NoTransfer,
           \/ Sending(s)
           \/ DatagramsOf(s) # {}
           \/ \E n \in Node : Handling(n, s) /\ receiver[n].stage # "copy"
    PROVE  Travelling(s) /\ ~Assembling(s) /\ ~Settled(s)
<1>1. ASSUME Assembling(s) PROVE FALSE
  <2>1. PICK n \in Node : receiver[n].stage = "copy" /\ Handling(n, s)
    BY <1>1 DEF Assembling
  <2>2. DatagramsOf(s) = {}
    BY <2>1 DEF ReliableInv, Once
  <2>3. \A m \in Node : Handling(m, s) => m = n
    BY <2>1, OneReceiver DEF ReliableInv, Handling
  <2>4. ~Sending(s)
    <3>1. CopiesWell(n) /\ IsPacket(receiver[n].packet) /\ receiver[n].packet.source = s
      BY <2>1, PacketTypes DEF ReliableInv, FileInv, CopyInv, Handling
    <3>2. command[s].next = FragCount(Cur(s)) + 1 /\ FragCount(Cur(s)) \in Nat
      BY <3>1, PacketNumbers DEF ReliableInv, CopiesWell, IsPacket
    <3>3. ~(command[s].next <= FragCount(Cur(s)))
      BY <3>2
    <3> QED
      BY <3>3 DEF Sending, Cur
  <2> QED
    BY <2>1, <2>2, <2>3, <2>4
<1>2. ~Finished(s)
  BY DEF Finished, Fresh, DatagramsOf
<1>3. ~Settled(s)
  BY DEF Settled, DatagramsOf
<1> QED
  BY <1>1, <1>2, <1>3 DEF ReliableInv, Account

(* sendFile starts: the source has its new file on its way, all of it      *)
(* still to be sent; a file without contents is finished at once.          *)
LEMMA SendFileReliable ==
    ASSUME ReliableInv, NEW s \in Node, NEW t \in Transfer, SendFile(s, t), Fresh(s)
    PROVE  /\ \A u \in Node \ {s} : Unmoved(u)
           /\ Once(s)' /\ Account(s)'
           /\ SourceOf[t] = s /\ Cur(s)' = t /\ final' = final
           /\ Size[t] > 0 => ~Settled(s)' /\ ~Assembling(s)'
<1>1. /\ command'[s].transfer = t /\ command'[s].next = 1
      /\ \A u \in Node \ {s} : command'[u] = command[u]
      /\ SourceOf[t] = s
      /\ UNCHANGED <<network, receiver, tmp, final>>
  BY DEF SendFile, ReliableInv, FileInv, TypeInv, TypeOK
<1>2. \A u \in Node \ {s} : Unmoved(u)
  BY <1>1 DEF Unmoved, DatagramsOf, StoredOf, Handling
<1>3. Fresh(s)'
  BY <1>1 DEF Fresh, Handling
<1>4. Once(s)' /\ ~Assembling(s)'
  BY <1>3 DEF Once, Fresh, DatagramsOf, StoredOf, Assembling
<1>5. FragCount(t) \in Nat /\ (Size[t] > 0 => FragCount(t) # 0)
  BY FragCountProperties
<1>6. Cur(s)' = t /\ t # NoTransfer
  BY <1>1, TransferAssumption DEF Cur
<1>7. CASE FragCount(t) = 0
  <2>1. ~Sending(s)'
    BY <1>1, <1>7 DEF Sending
  <2> QED
    BY <1>1, <1>2, <1>3, <1>4, <1>5, <1>6, <1>7, <2>1 DEF Account, Finished
<1>8. CASE FragCount(t) # 0
  <2>1. Sending(s)'
    BY <1>1, <1>5, <1>6, <1>8 DEF Sending, Cur
  <2>2. Travelling(s)'
    <3>1. ~InTmp(s, 1)'
      BY <1>3 DEF InTmp, Fresh
    <3>2. 1 \in 1 .. FragCount(t) /\ 1 .. command'[s].next - 1 = {}
      BY <1>1, <1>5, <1>8
    <3> QED
      BY <1>6, <3>1, <3>2 DEF Travelling
  <2>3. ~Settled(s)'
    BY <2>1 DEF Settled
  <2> QED
    BY <1>1, <1>2, <1>4, <1>6, <2>2, <2>3 DEF Account
<1> QED
  BY <1>7, <1>8

(* One more fragment is on its way.                                        *)
LEMMA SendFragmentReliable ==
    ASSUME CountsFit, ReliableInv, NEW s \in Node, SendFragment(s)
    PROVE  /\ \A u \in Node \ {s} : Unmoved(u)
           /\ Once(s)' /\ Account(s)' /\ Rests(s)
<1> DEFINE q == NextPacket(s)
           i == command[s].next
<1>1. /\ \A u \in Node \ {s} : command'[u] = command[u]
      /\ UNCHANGED <<issued, receiver, tmp, final>>
      /\ Sending(s)
  BY DEF SendFragment, ReliableInv, FileInv, TypeInv, TypeOK
<1>2. PICK hop : network' = network \cup {[packet |-> q, to |-> hop, copy |-> 0]}
  BY DEF SendFragment, NextPacket
<1>3. /\ q.source = s /\ q.number = i
      /\ i \in 1 .. FragCount(Cur(s)) /\ i \in Nat /\ FragCount(Cur(s)) \in Nat
      /\ Cur(s) \in Transfer
      /\ command'[s].transfer = Cur(s) /\ command'[s].next = i + 1
  BY NextPacketIsPacket, FragCountProperties DEF ReliableInv
<1>4. Cur(s)' = Cur(s) /\ Cur(s) # NoTransfer
  BY <1>3, TransferAssumption DEF Cur
<1> HIDE DEF q, i
<1>5. PICK new : /\ new.packet.source = s /\ new.packet.number = i
                 /\ network' = network \cup {new}
  <2> DEFINE d == [packet |-> q, to |-> hop, copy |-> 0]
  <2>1. d.packet = q
    OBVIOUS
  <2> HIDE DEF d
  <2>2. d.packet.source = s /\ d.packet.number = i /\ network' = network \cup {d}
    BY <1>2, <1>3, <2>1 DEF d
  <2> QED
    BY <2>2
<1>6. \A u \in Node \ {s} : Unmoved(u)
  BY <1>1, <1>5 DEF Unmoved, DatagramsOf, StoredOf, Handling
<1>7. /\ DatagramsOf(s)' = DatagramsOf(s) \cup {new}
      /\ StoredOf(s)' = StoredOf(s)
      /\ \A n \in Node : Handling(n, s)' <=> Handling(n, s)
  BY <1>1, <1>5 DEF DatagramsOf, StoredOf, Handling
<1>8. Travelling(s) /\ ~Assembling(s) /\ ~Settled(s)
  BY <1>1, <1>4, StillTravelling
<1>9. /\ \A d \in DatagramsOf(s) : d.packet.number \in Nat /\ d.packet.number < i
      /\ \A f \in StoredOf(s) : f.number \in Nat /\ f.number < i
      /\ \A n \in Node : Handling(n, s) =>
           receiver[n].packet.number \in Nat /\ receiver[n].packet.number < i
  <2>1. \A k, data : IsFragment(s, k, data) => k \in Nat /\ k < i
    BY <1>3, PacketNumbers DEF ReliableInv, i
  <2> QED
    BY <2>1, PacketTypes DEF ReliableInv, DatagramsOf, StoredOf, Handling, IsPacket
<1>10. Once(s)'
  <2>1. \A d \in DatagramsOf(s) : d.packet.number # i
    BY <1>3, <1>9
  <2>2. \A f \in StoredOf(s) : f.number # i
    BY <1>3, <1>9
  <2>3. \A n \in Node : Handling(n, s) =>
          receiver[n].packet.number # i /\ receiver[n].stage # "copy"
    BY <1>3, <1>8, <1>9 DEF Assembling
  <2>4. Once(s)
    BY DEF ReliableInv
  <2> QED
    BY <1>1, <1>5, <1>7, <2>1, <2>2, <2>3, <2>4 DEF Once
<1>11. Travelling(s)'
  <2>1. \A k : InTmp(s, k)' <=> InTmp(s, k)
    BY <1>1 DEF InTmp
  <2>2. \A k : OnItsWay(s, k) \/ k = i => OnItsWay(s, k)'
    BY <1>1, <1>5, <1>7 DEF OnItsWay
  <2>3. \A k \in 1 .. command'[s].next - 1 : k \in 1 .. i - 1 \/ k = i
    BY <1>3
  <2> QED
    BY <1>1, <1>4, <1>7, <1>8, <2>1, <2>2, <2>3 DEF Travelling, i
<1>12. ~Assembling(s)' /\ ~Settled(s)'
  BY <1>1, <1>5, <1>7, <1>8 DEF Assembling, Settled
<1> QED
  BY <1>1, <1>4, <1>6, <1>8, <1>10, <1>11, <1>12 DEF Account, Rests

(* A relay sends a fragment on.                                            *)
LEMMA ForwardReliable ==
    ASSUME ReliableInv, NEW n \in Node, Forward(n)
    PROVE  \E s \in Node : /\ \A u \in Node \ {s} : Unmoved(u)
                           /\ Once(s)' /\ Account(s)' /\ Rests(s)
<1>1. PICK d \in network :
        network' = (network \ {d}) \cup {[d EXCEPT !.to = d.packet.target]}
  BY DEF Forward
<1> DEFINE s == d.packet.source
<1>2. PICK new : /\ new.packet = d.packet
                 /\ network' = (network \ {d}) \cup {new}
  <2>1. [d EXCEPT !.to = d.packet.target].packet = d.packet
    BY DEF ReliableInv, FileInv, TypeInv, TypeOK, Datagram
  <2> QED
    BY <1>1, <2>1
<1>3. UNCHANGED <<command, issued, receiver, tmp, final>>
  BY DEF Forward
<1>4. s \in Node /\ Cur(s) # NoTransfer
  BY PacketTypes DEF ReliableInv, IsPacket, IsFragment
<1> HIDE DEF s
<1>5. \A u \in Node \ {s} : Unmoved(u)
  BY <1>2, <1>3 DEF Unmoved, DatagramsOf, StoredOf, Handling, s
<1>6. /\ d \in DatagramsOf(s)
      /\ DatagramsOf(s)' = (DatagramsOf(s) \ {d}) \cup {new}
      /\ StoredOf(s)' = StoredOf(s)
      /\ \A m \in Node : Handling(m, s)' <=> Handling(m, s)
  BY <1>2, <1>3 DEF DatagramsOf, StoredOf, Handling, s
<1>7. Travelling(s) /\ ~Assembling(s) /\ ~Settled(s)
  BY <1>4, <1>6, StillTravelling
<1>8. Once(s)'
  <2>1. Once(s)
    BY <1>4 DEF ReliableInv
  <2> QED
    BY <1>2, <1>3, <1>6, <2>1 DEF Once
<1>9. Travelling(s)'
  <2>1. \A k : OnItsWay(s, k) => OnItsWay(s, k)'
    BY <1>2, <1>3, <1>6 DEF OnItsWay
  <2>2. \A k : InTmp(s, k)' <=> InTmp(s, k)
    BY <1>3 DEF InTmp
  <2>3. Cur(s)' = Cur(s) /\ command'[s].next = command[s].next
    BY <1>3 DEF Cur
  <2> QED
    BY <1>3, <1>6, <1>7, <2>1, <2>2, <2>3 DEF Travelling
<1>10. ~Assembling(s)' /\ ~Settled(s)' /\ Cur(s)' = Cur(s) /\ final'[s] = final[s]
  <2>1. new \in network' /\ new.packet.source = s
    BY <1>2 DEF s
  <2> QED
    BY <1>3, <1>6, <1>7, <2>1 DEF Assembling, Settled, Cur
<1> QED
  BY <1>4, <1>5, <1>7, <1>8, <1>9, <1>10 DEF Account, Rests

(* The target takes a fragment from the network.                           *)
LEMMA ReceiveReliable ==
    ASSUME ReliableInv, NEW n \in Node, Receive(n)
    PROVE  \E s \in Node : /\ \A u \in Node \ {s} : Unmoved(u)
                           /\ Once(s)' /\ Account(s)' /\ Rests(s)
<1>1. PICK d \in network : /\ d.packet.target = n
                           /\ network' = network \ {d}
                           /\ receiver[n] = Idle
                           /\ receiver' = [receiver EXCEPT ![n] = Writing(d.packet)]
  BY DEF Receive
<1> DEFINE p == d.packet
           s == p.source
<1>2. UNCHANGED <<command, issued, tmp, final>>
  BY DEF Receive
<1>3. s \in Node /\ Cur(s) # NoTransfer
  BY PacketTypes DEF ReliableInv, IsPacket, IsFragment
<1>4. /\ receiver[n].stage = "idle"
      /\ receiver'[n].stage = "write" /\ receiver'[n].packet = p
      /\ \A m \in Node \ {n} : receiver'[m] = receiver[m]
  BY <1>1, ReceiverTypes DEF ReliableInv, FileInv, TypeInv, Writing, Idle
<1> HIDE DEF s
<1>5. /\ ~Handling(n, s) /\ Handling(n, s)'
      /\ \A m \in Node \ {n} : \A u : Handling(m, u)' <=> Handling(m, u)
      /\ \A u : u # s => ~Handling(n, u) /\ ~Handling(n, u)'
  BY <1>4 DEF Handling, s
<1>6. \A u \in Node \ {s} : Unmoved(u)
  BY <1>1, <1>2, <1>4, <1>5 DEF Unmoved, DatagramsOf, StoredOf, s
<1>7. /\ d \in DatagramsOf(s)
      /\ DatagramsOf(s)' = DatagramsOf(s) \ {d}
      /\ StoredOf(s)' = StoredOf(s)
  BY <1>1, <1>2 DEF DatagramsOf, StoredOf, s
<1>8. Travelling(s) /\ ~Assembling(s) /\ ~Settled(s)
  BY <1>3, <1>7, StillTravelling
<1>9. Once(s)'
  <2>1. Once(s)
    BY <1>3 DEF ReliableInv
  <2>2. \A m \in Node \ {n} : Handling(m, s) => receiver[m].stage # "copy"
    BY <1>8 DEF Assembling
  <2>3. \A m \in Node : Handling(m, s)' =>
          /\ receiver'[m].stage = "write" =>
               /\ \A e \in DatagramsOf(s)' : e.packet.number # receiver'[m].packet.number
               /\ \A f \in StoredOf(s)' : f.number # receiver'[m].packet.number
          /\ receiver'[m].stage # "copy"
    <3>1. \A m \in Node \ {n} : Handling(m, s)' =>
            /\ receiver'[m].stage = "write" =>
                 /\ \A e \in DatagramsOf(s)' : e.packet.number # receiver'[m].packet.number
                 /\ \A f \in StoredOf(s)' : f.number # receiver'[m].packet.number
            /\ receiver'[m].stage # "copy"
      BY <1>4, <1>5, <1>7, <2>1, <2>2 DEF Once
    <3>2. /\ \A e \in DatagramsOf(s)' : e.packet.number # p.number
          /\ \A f \in StoredOf(s)' : f.number # p.number
      BY <1>7, <2>1 DEF Once
    <3> QED
      BY <1>4, <3>1, <3>2
  <2>4. /\ \A e, f \in DatagramsOf(s)' : e.packet.number = f.packet.number => e = f
        /\ \A e \in DatagramsOf(s)', f \in StoredOf(s)' : e.packet.number # f.number
    BY <1>7, <2>1 DEF Once
  <2> QED
    BY <2>3, <2>4 DEF Once
<1>10. Travelling(s)'
  <2>1. \A k : OnItsWay(s, k) => OnItsWay(s, k)'
    <3>1. ASSUME NEW k, NEW e \in DatagramsOf(s), e.packet.number = k
          PROVE  OnItsWay(s, k)'
      BY <1>4, <1>5, <1>7, <3>1 DEF OnItsWay
    <3>2. ASSUME NEW k, NEW m \in Node, Handling(m, s),
                 receiver[m].stage = "write", receiver[m].packet.number = k
          PROVE  OnItsWay(s, k)'
      BY <1>4, <1>5, <3>2 DEF OnItsWay
    <3> QED
      BY <3>1, <3>2 DEF OnItsWay
  <2>2. \A k : InTmp(s, k)' <=> InTmp(s, k)
    BY <1>2 DEF InTmp
  <2>3. Cur(s)' = Cur(s) /\ command'[s].next = command[s].next
    BY <1>2 DEF Cur
  <2>4. \A m \in Node : Handling(m, s) /\ receiver[m].stage = "count"
                          => Handling(m, s)' /\ receiver'[m].stage = "count"
    BY <1>4, <1>5
  <2> QED
    BY <1>8, <2>1, <2>2, <2>3, <2>4 DEF Travelling
<1>11. ~Assembling(s)' /\ ~Settled(s)' /\ Cur(s)' = Cur(s) /\ final'[s] = final[s]
  <2>1. ~Assembling(s)'
    BY <1>4, <1>5, <1>8 DEF Assembling
  <2>2. ~Settled(s)'
    BY <1>5 DEF Settled
  <2> QED
    BY <1>2, <2>1, <2>2 DEF Cur
<1> QED
  BY <1>3, <1>6, <1>8, <1>9, <1>10, <1>11 DEF Account, Rests

(* The target stores a fragment, and has then to count.                    *)
LEMMA WriteToFileReliable ==
    ASSUME ReliableInv, NEW n \in Node, WriteToFile(n)
    PROVE  \E s \in Node : /\ \A u \in Node \ {s} : Unmoved(u)
                           /\ Once(s)' /\ Account(s)' /\ Rests(s)
<1> DEFINE p == receiver[n].packet
<1>0. PICK s : s = p.source
  OBVIOUS
<1>1. /\ UNCHANGED <<command, issued, network, final>>
      /\ receiver' = [receiver EXCEPT ![n] = Counting(p)]
      /\ receiver[n].stage = "write"
  BY DEF WriteToFile
<1>2. PICK new : /\ new.source = s /\ new.number = p.number
                 /\ tmp' = (tmp \ Fragments(s, p.number)) \cup {new}
  BY <1>0 DEF WriteToFile
<1>3. s \in Node /\ Cur(s) # NoTransfer
  BY <1>0, <1>1, PacketTypes DEF ReliableInv, IsPacket, IsFragment
<1>4. /\ receiver'[n].stage = "count" /\ receiver'[n].packet = p
      /\ \A m \in Node \ {n} : receiver'[m] = receiver[m]
  BY <1>1, ReceiverTypes DEF ReliableInv, FileInv, TypeInv, Counting
<1>5. /\ Handling(n, s) /\ Handling(n, s)'
      /\ \A m \in Node \ {n} : \A u : Handling(m, u)' <=> Handling(m, u)
      /\ \A m \in Node \ {n} : ~Handling(m, s)
      /\ \A u : u # s => ~Handling(n, u) /\ ~Handling(n, u)'
  BY <1>0, <1>1, <1>4, OneReceiver DEF Handling, ReliableInv
<1>6. Once(s)
  BY <1>3 DEF ReliableInv
<1> HIDE DEF p
<1>7. StoredOf(s)' = StoredOf(s) \cup {new}
  <2>1. \A f \in StoredOf(s) : f.number # p.number
    BY <1>1, <1>5, <1>6 DEF Once, p
  <2>2. Fragments(s, p.number) = {}
    BY <2>1 DEF Fragments, StoredOf
  <2> QED
    BY <1>2, <2>2 DEF StoredOf
<1>8. \A u \in Node \ {s} : Unmoved(u)
  <2>1. \A u \in Node \ {s} : StoredOf(u)' = StoredOf(u)
    BY <1>2 DEF StoredOf, Fragments
  <2> QED
    BY <1>1, <1>4, <1>5, <2>1 DEF Unmoved, DatagramsOf
<1>9. Travelling(s) /\ ~Assembling(s) /\ ~Settled(s)
  BY <1>1, <1>3, <1>5, StillTravelling
<1>10. DatagramsOf(s)' = DatagramsOf(s)
  BY <1>1 DEF DatagramsOf
<1>11. Once(s)'
  <2>1. \A d \in DatagramsOf(s) : d.packet.number # p.number
    BY <1>1, <1>5, <1>6 DEF Once, p
  <2>2. \A m \in Node : Handling(m, s)' => receiver'[m].stage = "count"
    BY <1>4, <1>5
  <2> QED
    BY <1>2, <1>6, <1>7, <1>10, <2>1, <2>2 DEF Once
<1>12. Travelling(s)'
  <2>1. \A k : InTmp(s, k) \/ k = p.number => InTmp(s, k)'
    <3>1. \A k : InTmp(s, k)' <=> \E f \in StoredOf(s)' : f.number = k
      BY DEF InTmp, StoredOf
    <3>2. \A k : InTmp(s, k) <=> \E f \in StoredOf(s) : f.number = k
      BY DEF InTmp, StoredOf
    <3> QED
      BY <1>2, <1>7, <3>1, <3>2
  <2>2. \A k : OnItsWay(s, k) => OnItsWay(s, k)' \/ k = p.number
    BY <1>5, <1>10 DEF OnItsWay, p
  <2>3. Cur(s)' = Cur(s) /\ command'[s].next = command[s].next
    BY <1>1 DEF Cur
  <2> QED
    BY <1>4, <1>5, <1>9, <2>1, <2>2, <2>3 DEF Travelling
<1>13. ~Assembling(s)' /\ ~Settled(s)' /\ Cur(s)' = Cur(s) /\ final'[s] = final[s]
  <2>1. ~Assembling(s)'
    BY <1>4, <1>5 DEF Assembling
  <2>2. ~Settled(s)'
    BY <1>5 DEF Settled
  <2> QED
    BY <1>1, <2>1, <2>2 DEF Cur
<1> QED
  BY <1>3, <1>8, <1>9, <1>11, <1>12, <1>13 DEF Account, Rests

(***************************************************************************)
(* The target counts.  Unless all fragments are there nothing has          *)
(* happened; otherwise none is on its way, and the file is put together.   *)
(***************************************************************************)
LEMMA CountFragmentsReliable ==
    ASSUME OwnNames, ReliableInv, NEW n \in Node, CountFragments(n)
    PROVE  \E s \in Node :
             /\ \A u \in Node \ {s} : Unmoved(u)
             /\ Once(s)' /\ Account(s)'
             /\ \/ Rests(s)
                \/ /\ Cur(s)' = Cur(s)
                   /\ ~Settled(s) /\ ~Assembling(s)
                   /\ ~Settled(s)' /\ Assembling(s)'
<1>0. PICK s : s = receiver[n].packet.source
  OBVIOUS
<1> DEFINE p == receiver[n].packet
           F == FragCount(Cur(s))
           total == Cardinality({f \in tmp : f.source \in SamePrefix[p.source]})
<1>1. /\ UNCHANGED <<command, issued, network, tmp>>
      /\ receiver[n].stage = "count"
      /\ \/ /\ IsComplete(p, total)
            /\ receiver' = [receiver EXCEPT ![n] = Copying(p, total, 1, TRUE)]
            /\ final' = [final EXCEPT ![s] = <<>>]
         \/ /\ ~IsComplete(p, total)
            /\ receiver' = [receiver EXCEPT ![n] = Idle]
            /\ UNCHANGED final
  BY <1>0 DEF CountFragments
<1>2. s \in Node /\ Cur(s) # NoTransfer
  BY <1>0, <1>1, PacketTypes DEF ReliableInv, IsPacket, IsFragment
<1>3. IsComplete(p, total) <=> \A i \in 1 .. F : InTmp(s, i)
  BY <1>0, <1>1, CountIsRight DEF ReliableInv
<1>4. /\ \A m \in Node \ {n} : receiver'[m] = receiver[m]
      /\ \/ /\ IsComplete(p, total)
            /\ receiver'[n].stage = "copy" /\ receiver'[n].packet = p
         \/ /\ ~IsComplete(p, total)
            /\ receiver'[n].stage = "idle" /\ final' = final
      /\ \A u \in Node \ {s} : final'[u] = final[u]
  <2>1. receiver \in [Node -> ReceiverState] /\ final \in [Node -> Seq(Chunk)]
    BY ReceiverTypes DEF ReliableInv, FileInv, TypeInv, TypeOK
  <2> HIDE DEF total
  <2> QED
    BY <1>1, <2>1 DEF Copying, Idle
<1>5. /\ Handling(n, s)
      /\ \A m \in Node \ {n} : \A u : Handling(m, u)' <=> Handling(m, u)
      /\ \A m \in Node \ {n} : ~Handling(m, s)
      /\ \A u : u # s => ~Handling(n, u) /\ ~Handling(n, u)'
  BY <1>0, <1>1, <1>4, OneReceiver DEF Handling, ReliableInv
<1>6. Once(s)
  BY <1>2 DEF ReliableInv
<1> HIDE DEF p, total, F
<1>7. /\ DatagramsOf(s)' = DatagramsOf(s)
      /\ \A u : StoredOf(u)' = StoredOf(u)
      /\ \A k : InTmp(s, k)' <=> InTmp(s, k)
      /\ Cur(s)' = Cur(s) /\ command'[s].next = command[s].next
  BY <1>1 DEF DatagramsOf, StoredOf, InTmp, Cur
<1>8. \A u \in Node \ {s} : Unmoved(u)
  BY <1>1, <1>4, <1>5, <1>7 DEF Unmoved, DatagramsOf
<1>9. Travelling(s) /\ ~Assembling(s) /\ ~Settled(s)
  BY <1>1, <1>2, <1>5, StillTravelling
<1>10. \A f \in StoredOf(s) : f.number \in 1 .. F
  BY <1>2, PacketTypes, PacketNumbers DEF ReliableInv, StoredOf, F
<1>11. \A d \in DatagramsOf(s) : d.packet.number \in 1 .. F
  BY <1>2, PacketTypes, PacketNumbers DEF ReliableInv, DatagramsOf, IsPacket, F
<1>12. CASE IsComplete(p, total)
  <2>1. /\ receiver'[n].stage = "copy" /\ Handling(n, s)'
        /\ \A m \in Node : Handling(m, s)' => m = n
    BY <1>4, <1>5, <1>12, <1>0 DEF Handling, p
  <2>2. DatagramsOf(s) = {}
    <3> SUFFICES ASSUME NEW d \in DatagramsOf(s) PROVE FALSE
      OBVIOUS
    <3>1. InTmp(s, d.packet.number)
      BY <1>3, <1>11, <1>12
    <3>2. PICK f \in StoredOf(s) : f.number = d.packet.number
      BY <3>1 DEF InTmp, StoredOf
    <3> QED
      BY <1>6, <3>2 DEF Once
  <2>3. Once(s)'
    BY <1>7, <2>1, <2>2 DEF Once
  <2>4. Assembling(s)' /\ ~Settled(s)'
    BY <2>1 DEF Assembling, Settled
  <2> QED
    BY <1>2, <1>7, <1>8, <1>9, <2>3, <2>4 DEF Account
<1>13. CASE ~IsComplete(p, total)
  <2>1. PICK i \in 1 .. F : ~InTmp(s, i)
    BY <1>3, <1>13
  <2>2. /\ final' = final
        /\ \A m \in Node : ~Handling(m, s)'
    BY <1>4, <1>5, <1>13 DEF Handling
  <2>3. Once(s)'
    BY <1>6, <1>7, <2>2 DEF Once
  <2>4. \A k : OnItsWay(s, k) => OnItsWay(s, k)'
    BY <1>1, <1>5, <1>7 DEF OnItsWay
  <2>5. Travelling(s)'
    BY <1>7, <1>9, <2>1, <2>4 DEF Travelling, F
  <2>6. ~Assembling(s)'
    BY <2>2 DEF Assembling
  <2>7. ~Settled(s)'
    <3>1. CASE i \in 1 .. command[s].next - 1
      <4>1. OnItsWay(s, i)'
        BY <1>7, <1>9, <2>1, <2>4, <3>1 DEF Travelling
      <4> QED
        BY <2>2, <4>1 DEF OnItsWay, Settled, DatagramsOf
    <3>2. CASE i \notin 1 .. command[s].next - 1
      <4>1. command[s].next \in Nat /\ F \in Nat
        BY <1>2, PacketTypes, FragCountProperties DEF ReliableInv, F
      <4>2. command[s].next <= F
        BY <2>1, <3>2, <4>1
      <4>3. Sending(s)'
        BY <1>1, <1>2, <4>2 DEF Sending, Cur, F
      <4> QED
        BY <4>3 DEF Settled
    <3> QED
      BY <3>1, <3>2
  <2> QED
    BY <1>2, <1>7, <1>8, <1>9, <2>2, <2>3, <2>5, <2>6, <2>7 DEF Account, Rests
<1> QED
  BY <1>12, <1>13

(* One fragment goes to the final file.                                    *)
LEMMA CopyFragmentReliable ==
    ASSUME ReliableInv, NEW n \in Node, CopyFragment(n)
    PROVE  \E s \in Node : /\ \A u \in Node \ {s} : Unmoved(u)
                           /\ Once(s)' /\ Account(s)' /\ Rests(s)
<1> DEFINE p == receiver[n].packet
<1>0. PICK s : s = p.source
  OBVIOUS
<1>1. /\ UNCHANGED <<command, issued, network>>
      /\ receiver[n].stage = "copy"
      /\ tmp' = tmp \ Fragments(s, receiver[n].next)
      /\ \/ \E data : final' = [final EXCEPT ![s] = @ \o data]
         \/ final' = final
      /\ \E total, i, good : receiver' = [receiver EXCEPT ![n] = Copying(p, total, i, good)]
  BY <1>0 DEF CopyFragment, RemoveFragment
<1>2. s \in Node
  BY <1>0, <1>1, PacketTypes DEF ReliableInv
<1>3. /\ receiver'[n].stage = "copy" /\ receiver'[n].packet = p
      /\ \A m \in Node \ {n} : receiver'[m] = receiver[m]
      /\ \A u \in Node \ {s} : final'[u] = final[u]
  <2>1. receiver \in [Node -> ReceiverState] /\ final \in [Node -> Seq(Chunk)]
    BY ReceiverTypes DEF ReliableInv, FileInv, TypeInv, TypeOK
  <2> QED
    BY <1>1, <2>1 DEF Copying
<1>4. /\ Handling(n, s) /\ Handling(n, s)'
      /\ \A m \in Node \ {n} : \A u : Handling(m, u)' <=> Handling(m, u)
      /\ \A m \in Node \ {n} : ~Handling(m, s)
      /\ \A u : u # s => ~Handling(n, u) /\ ~Handling(n, u)'
  BY <1>0, <1>1, <1>3, OneReceiver DEF Handling, ReliableInv
<1>5. \A u \in Node \ {s} : StoredOf(u)' = StoredOf(u)
  BY <1>1 DEF StoredOf, Fragments
<1>6. \A u \in Node \ {s} : Unmoved(u)
  BY <1>1, <1>3, <1>4, <1>5 DEF Unmoved, DatagramsOf
<1>7. DatagramsOf(s) = {} /\ DatagramsOf(s)' = {}
  <2>1. Once(s)
    BY <1>2 DEF ReliableInv
  <2>2. DatagramsOf(s) = {}
    BY <1>1, <1>4, <2>1 DEF Once
  <2> QED
    BY <1>1, <2>2 DEF DatagramsOf
<1>8. Once(s)'
  BY <1>3, <1>4, <1>7 DEF Once
<1>9. Assembling(s) /\ Assembling(s)' /\ ~Settled(s) /\ ~Settled(s)'
  BY <1>1, <1>3, <1>4 DEF Assembling, Settled
<1>10. Cur(s)' = Cur(s)
  BY <1>1 DEF Cur
<1> QED
  BY <1>2, <1>6, <1>8, <1>9, <1>10 DEF Account, Rests

(* The final file is closed, and nothing else is left of it.               *)
LEMMA CloseFileReliable ==
    ASSUME ReliableInv, NEW n \in Node, CloseFile(n)
    PROVE  \E s \in Node :
             /\ \A u \in Node \ {s} : Unmoved(u)
             /\ Once(s)' /\ Account(s)'
             /\ Cur(s)' = Cur(s)
             /\ Assembling(s) /\ ~Settled(s)
             /\ ~Assembling(s)' /\ Settled(s)'
             /\ IsPrefix(File(Cur(s)), final'[s])
<1>0. PICK s : s = receiver[n].packet.source
  OBVIOUS
<1>1. /\ UNCHANGED <<command, issued, network, tmp, final>>
      /\ receiver[n].stage = "copy" /\ Copied(receiver[n])
      /\ receiver'[n].stage = "idle"
      /\ \A m \in Node \ {n} : receiver'[m] = receiver[m]
  BY ReceiverTypes DEF CloseFile, ReliableInv, FileInv, TypeInv, Idle
<1>2. /\ IsPrefix(File(Cur(s)), final[s])
      /\ s \in Node
      /\ ~Sending(s)
      /\ \A i \in 1 .. FragCount(Cur(s)) : ~InTmp(s, i)
  BY <1>0, <1>1, CopiedWhole DEF ReliableInv
<1>3. /\ Handling(n, s) /\ ~Handling(n, s)'
      /\ \A m \in Node \ {n} : \A u : Handling(m, u)' <=> Handling(m, u)
      /\ \A m \in Node \ {n} : ~Handling(m, s)
      /\ \A u : u # s => ~Handling(n, u) /\ ~Handling(n, u)'
  BY <1>0, <1>1, OneReceiver DEF Handling, ReliableInv
<1>4. \A u \in Node \ {s} : Unmoved(u)
  BY <1>1, <1>3 DEF Unmoved, DatagramsOf, StoredOf
<1>5. DatagramsOf(s) = {}
  <2>1. Once(s)
    BY <1>2 DEF ReliableInv
  <2> QED
    BY <1>1, <1>3, <2>1 DEF Once
<1>6. \A d \in network' : d.packet.source # s
  BY <1>1, <1>5 DEF DatagramsOf
<1>7. \A f \in tmp' : f.source # s
  <2>1. \A f \in tmp : f.source = s => f.number \in 1 .. FragCount(Cur(s))
    BY <1>2, PacketTypes, PacketNumbers DEF ReliableInv
  <2>2. \A f \in tmp : f.source = s => InTmp(s, f.number)
    BY DEF InTmp
  <2> QED
    BY <1>1, <1>2, <2>1, <2>2
<1>8. \A m \in Node : ~Handling(m, s)'
  BY <1>3
<1>9. ~Sending(s)' /\ Cur(s)' = Cur(s)
  BY <1>1, <1>2 DEF Sending, Cur
<1>10. Fresh(s)'
  BY <1>6, <1>7, <1>8 DEF Fresh
<1>11. Settled(s)' /\ ~Assembling(s)' /\ Assembling(s) /\ ~Settled(s)
  BY <1>1, <1>3, <1>6, <1>8, <1>9 DEF Settled, Assembling
<1>12. Once(s)'
  BY <1>6, <1>8 DEF Once, DatagramsOf
<1>13. Account(s)'
  BY <1>9, <1>10 DEF Account, Finished
<1> QED
  BY <1>1, <1>2, <1>4, <1>9, <1>11, <1>12, <1>13

(***************************************************************************)
(* Every step is one of a single source: it starts a file, or changes      *)
(* nothing that a reader could tell, or begins to write the final file, or *)
(* closes it.                                                              *)
(***************************************************************************)
Starts(s) ==
    \E t \in Transfer :
      /\ SourceOf[t] = s /\ Cur(s)' = t /\ final'[s] = final[s]
      /\ Settled(s) /\ ~Assembling(s)
      /\ Size[t] > 0 => ~Settled(s)' /\ ~Assembling(s)'

Begins(s) ==
    /\ Cur(s)' = Cur(s)
    /\ ~Settled(s) /\ ~Assembling(s)
    /\ ~Settled(s)' /\ Assembling(s)'

Closes(s) ==
    /\ Cur(s)' = Cur(s)
    /\ Assembling(s) /\ ~Settled(s)
    /\ ~Assembling(s)' /\ Settled(s)'
    /\ IsPrefix(File(Cur(s)), final'[s])

LEMMA ReliableStep ==
    ASSUME OwnNames, CountsFit, Reliable, ReliableInv, Next
    PROVE  \E s \in Node :
             /\ \A u \in Node \ {s} : Unmoved(u)
             /\ Once(s)' /\ Account(s)'
             /\ Starts(s) \/ Rests(s) \/ Begins(s) \/ Closes(s)
<1>1. CASE Lose \/ Duplicate
  <2>1. losses \in 0 .. 0 /\ copies \in 0 .. 0
    BY DEF ReliableInv, FileInv, TypeInv, TypeOK, Reliable
  <2> QED
    BY <1>1, <2>1 DEF Lose, Duplicate, Reliable
<1>2. ASSUME NEW s \in Node, NEW t \in Transfer, SendFile(s, t)
      PROVE  /\ \A u \in Node \ {s} : Unmoved(u)
             /\ Once(s)' /\ Account(s)' /\ Starts(s)
  <2>1. Settled(s)
    BY <1>2 DEF SendFile, Reliable
  <2>2. Fresh(s)
    BY <2>1, SettledIsFresh DEF ReliableInv
  <2>3. ~Assembling(s)
    BY <2>1 DEF Assembling, Settled
  <2> QED
    BY <1>2, <2>1, <2>2, <2>3, SendFileReliable DEF Starts
<1>3. ASSUME NEW s \in Node, SendFragment(s)
      PROVE  /\ \A u \in Node \ {s} : Unmoved(u)
             /\ Once(s)' /\ Account(s)' /\ Rests(s)
  BY <1>3, SendFragmentReliable
<1>4. ASSUME NEW n \in Node, ReceiverThread(n)
      PROVE  \E s \in Node : /\ \A u \in Node \ {s} : Unmoved(u)
                             /\ Once(s)' /\ Account(s)'
                             /\ Rests(s) \/ Begins(s) \/ Closes(s)
  <2>1. CASE CountFragments(n)
    BY <2>1, CountFragmentsReliable DEF Begins
  <2>2. CASE CloseFile(n)
    BY <2>2, CloseFileReliable DEF Closes
  <2> QED
    BY <1>4, <2>1, <2>2, ForwardReliable, ReceiveReliable, WriteToFileReliable,
       CopyFragmentReliable DEF ReceiverThread
<1> QED
  BY <1>1, <1>2, <1>3, <1>4 DEF Next

LEMMA ReliableInductive ==
    ASSUME OwnNames, CountsFit, Reliable PROVE Spec => []ReliableInv
<1>1. Init => ReliableInv
  <2> SUFFICES ASSUME Init PROVE ReliableInv
    OBVIOUS
  <2>1. \A s \in Node : Cur(s) = NoTransfer /\ DatagramsOf(s) = {} /\ StoredOf(s) = {}
    BY DEF Init, Cur, DatagramsOf, StoredOf
  <2>2. \A n \in Node : \A s : ~Handling(n, s)
    BY DEF Init, Handling, Idle
  <2> QED
    BY <2>1, <2>2, InitFile DEF ReliableInv, Once, Account
<1>2. ReliableInv /\ [Next]_vars => ReliableInv'
  <2> SUFFICES ASSUME ReliableInv, [Next]_vars PROVE ReliableInv'
    OBVIOUS
  <2>1. ASSUME NEW s \in Node, NEW t \in Transfer, SendFile(s, t) PROVE Fresh(s)
    BY <2>1, SettledIsFresh DEF SendFile, Reliable, ReliableInv
  <2>2. FileInv'
    BY <2>1, FileStep DEF ReliableInv
  <2>3. ASSUME NEW u \in Node PROVE Once(u)' /\ Account(u)'
    <3>1. CASE Next
      BY <2>3, <3>1, ReliableStep, UnmovedKeeps DEF ReliableInv
    <3>2. CASE UNCHANGED vars
      <4>1. Unmoved(u)
        BY <3>2 DEF vars, Unmoved, DatagramsOf, StoredOf
      <4> QED
        BY <2>3, <4>1, UnmovedKeeps DEF ReliableInv
    <3> QED
      BY <3>1, <3>2
  <2> QED
    BY <2>2, <2>3 DEF ReliableInv
<1> QED
  BY <1>1, <1>2, PTL DEF Spec

(* With one file per source nothing has been sent before that file.        *)
LEMMA OneFileInductive ==
    ASSUME OwnNames, CountsFit, OneFileEach PROVE Spec => []FileInv
<1>1. FileInv /\ [Next]_vars => FileInv'
  <2> SUFFICES ASSUME FileInv, [Next]_vars PROVE FileInv'
    OBVIOUS
  <2>1. ASSUME NEW s \in Node, NEW t \in Transfer, SendFile(s, t) PROVE Fresh(s)
    <3>1. SourceOf[t] = s /\ t \notin issued
      BY <2>1 DEF SendFile
    <3>2. Cur(s) = NoTransfer
      <4>1. Cur(s) # NoTransfer => /\ Cur(s) \in issued /\ SourceOf[Cur(s)] = s
                                   /\ Cur(s) \in Transfer
        BY PacketTypes DEF FileInv, CommandInv
      <4> QED
        BY <3>1, <4>1 DEF OneFileEach
    <3> QED
      BY <3>2, PacketTypes DEF Fresh, Handling, IsPacket, IsFragment
  <2> QED
    BY <2>1, FileStep
<1> QED
  BY <1>1, InitFile, PTL DEF Spec
-----------------------------------------------------------------------------
(***************************************************************************)
(* NothingIsLeft: on a network that loses and repeats nothing, with any    *)
(* number of nodes, relays and files of any size, the receivers leave no   *)
(* fragment in /tmp that the next file of its source would be counted      *)
(* with, if users wait for one file to settle before they send the next.   *)
(***************************************************************************)
THEOREM NothingIsLeft ==
    ASSUME OwnNames, CountsFit, Reliable PROVE Spec => []NothingLeftBehind
<1>1. ReliableInv => NothingLeftBehind
  <2> SUFFICES ASSUME ReliableInv, \A s \in Node : Settled(s) PROVE tmp = {}
    BY DEF NothingLeftBehind
  <2>1. \A s \in Node : Fresh(s)
    BY SettledIsFresh DEF ReliableInv
  <2> QED
    BY <2>1, PacketTypes DEF ReliableInv, Fresh
<1> QED
  BY <1>1, ReliableInductive, PTL

(***************************************************************************)
(* FilesAreWhole: a final file that reassembleFile closes begins with all  *)
(* of the file that was sent, for any number of nodes, relays and files of *)
(* any size, whatever the network loses, repeats and reorders if nobody    *)
(* sends a second file; for users who wait, if it only reorders.           *)
(***************************************************************************)
THEOREM FilesAreWhole ==
    ASSUME OwnNames, CountsFit, OneFileEach \/ Reliable PROVE Spec => AssembledWhole
<1>1. Spec => []FileInv
  <2>1. ReliableInv => FileInv
    BY DEF ReliableInv
  <2>2. CASE OneFileEach
    BY <2>2, OneFileInductive
  <2>3. CASE Reliable
    <3>1. Spec => []ReliableInv
      BY <2>3, ReliableInductive
    <3> QED
      BY <2>1, <3>1, PTL
  <2> QED
    BY <2>2, <2>3
<1>2. FileInv /\ [Next]_vars
        => [\A n \in Node : CloseFile(n) =>
              LET p == receiver[n].packet
              IN  IsPrefix(File(FileOf(p)), final[p.source])]_vars
  <2> SUFFICES ASSUME FileInv, NEW n \in Node, CloseFile(n)
               PROVE  IsPrefix(File(FileOf(receiver[n].packet)),
                               final[receiver[n].packet.source])
    OBVIOUS
  <2>1. receiver[n].stage = "copy" /\ Copied(receiver[n])
    BY DEF CloseFile
  <2> QED
    BY <2>1, CopiedWhole
<1> QED
  BY <1>1, <1>2, PTL DEF Spec, AssembledWhole
-----------------------------------------------------------------------------
(* The refinement of FileDelivery.                                         *)

(* Sending an empty file is not a step of FileDelivery: none arrives.      *)
NoneEmpty == \A t \in Transfer : Size[t] > 0

LEMMA DeliveryStep ==
    ASSUME OwnNames, CountsFit, Reliable, NoneEmpty, ReliableInv, [Next]_vars
    PROVE  [Delivery!Next]_(Delivery!vars)
<1> DEFINE current == [s \in Node |-> command[s].transfer]
           phase == [s \in Node |-> Phase(s)]
           inbox == [s \in Node |-> IF Assembling(s) THEN Partial ELSE final[s]]
<1>1. \A u \in Node : Rests(u) => /\ current'[u] = current[u]
                                  /\ phase'[u] = phase[u]
                                  /\ inbox'[u] = inbox[u]
  BY DEF Rests, Phase, Cur
<1>2. CASE UNCHANGED vars
  <2>1. \A u \in Node : Unmoved(u)
    BY <1>2 DEF vars, Unmoved, DatagramsOf, StoredOf
  <2>2. \A u \in Node : Rests(u)
    BY <2>1, UnmovedKeeps DEF ReliableInv
  <2>3. UNCHANGED <<current, phase, inbox>>
    BY <1>1, <2>2
  <2> QED
    BY <2>3 DEF Delivery!vars
<1>3. CASE Next
  <2>1. PICK s \in Node : /\ \A u \in Node \ {s} : Unmoved(u)
                          /\ Starts(s) \/ Rests(s) \/ Begins(s) \/ Closes(s)
    BY <1>3, ReliableStep
  <2>2. \A u \in Node \ {s} : Rests(u)
    BY <2>1, UnmovedKeeps DEF ReliableInv
  <2>3. \A u \in Node \ {s} : /\ current'[u] = current[u]
                              /\ phase'[u] = phase[u]
                              /\ inbox'[u] = inbox[u]
    BY <1>1, <2>2
  <2>4. CASE Rests(s)
    <3>1. UNCHANGED <<current, phase, inbox>>
      BY <1>1, <2>3, <2>4
    <3> QED
      BY <3>1 DEF Delivery!vars
  <2>5. CASE Starts(s)
    <3>1. PICK t \in Transfer :
            /\ SourceOf[t] = s /\ Cur(s)' = t /\ final'[s] = final[s]
            /\ Settled(s) /\ ~Assembling(s)
            /\ ~Settled(s)' /\ ~Assembling(s)'
      BY <2>5 DEF Starts, NoneEmpty
    <3>2. /\ phase[s] = "settled"
          /\ current' = [current EXCEPT ![s] = t]
          /\ phase' = [phase EXCEPT ![s] = "travelling"]
      <4>1. phase[s] = "settled" /\ phase'[s] = "travelling" /\ current'[s] = t
        BY <3>1 DEF Phase, Cur
      <4> QED
        BY <2>3, <4>1
    <3>3. inbox' = inbox
      <4>1. inbox'[s] = inbox[s]
        BY <3>1
      <4> QED
        BY <2>3, <4>1
    <3>4. Delivery!Send(s, t)
      BY <3>1, <3>2, <3>3 DEF Delivery!Send
    <3> QED
      BY <3>4 DEF Delivery!Next
  <2>6. CASE Begins(s)
    <3>1. /\ phase[s] = "travelling"
          /\ current' = current
          /\ phase' = [phase EXCEPT ![s] = "arriving"]
          /\ inbox' = [inbox EXCEPT ![s] = Partial]
      BY <2>3, <2>6 DEF Phase, Begins, Cur
    <3>2. Delivery!Arrive(s)
      BY <3>1 DEF Delivery!Arrive
    <3> QED
      BY <3>2 DEF Delivery!Next
  <2>7. CASE Closes(s)
    <3>1. /\ phase[s] = "arriving"
          /\ current' = current
          /\ phase' = [phase EXCEPT ![s] = "settled"]
          /\ inbox'[s] = final'[s]
          /\ inbox' = [inbox EXCEPT ![s] = inbox'[s]]
      BY <2>3, <2>7 DEF Phase, Closes, Cur
    <3>2. Delivery!IsPrefix([t \in Transfer |-> File(t)][current[s]], inbox'[s])
      <4>1. Cur(s) \in Transfer
        <5>1. PICK n \in Node : Handling(n, s)
          BY <2>7 DEF Closes, Assembling
        <5>2. Cur(s) # NoTransfer
          BY <5>1, PacketTypes DEF ReliableInv, Handling, IsPacket, IsFragment
        <5> QED
          BY <5>2, PacketTypes DEF ReliableInv
      <4>2. [t \in Transfer |-> File(t)][current[s]] = File(Cur(s))
        BY <4>1 DEF Cur
      <4>3. IsPrefix(File(Cur(s)), inbox'[s])
        BY <2>7, <3>1 DEF Closes
      <4>4. \A a, b : IsPrefix(a, b) => Delivery!IsPrefix(a, b)
        BY DEF IsPrefix, Delivery!IsPrefix
      <4> QED
        BY <4>2, <4>3, <4>4
    <3>3. Delivery!Deliver(s)
      BY <3>1, <3>2 DEF Delivery!Deliver
    <3> QED
      BY <3>3 DEF Delivery!Next
  <2> QED
    BY <2>1, <2>4, <2>5, <2>6, <2>7
<1> QED
  BY <1>2, <1>3

(***************************************************************************)
(* DeliveryImplemented: on such a network, for users who wait, sendFile,   *)
(* the relays and the receivers do step by step what FileDelivery says:    *)
(* one file after another is sent, arrives once and is then found whole,   *)
(* whichever ways its fragments go and whoever else sends and receives.    *)
(***************************************************************************)
THEOREM DeliveryImplemented ==
    ASSUME OwnNames, CountsFit, Reliable, NoneEmpty PROVE Spec => Delivery!Safety
<1>1. Init => Delivery!Init
  <2> SUFFICES ASSUME Init PROVE Delivery!Init
    OBVIOUS
  <2>1. \A s \in Node : /\ command[s].transfer = NoTransfer
                        /\ Phase(s) = "settled" /\ ~Assembling(s)
                        /\ final[s] = <<>>
    BY DEF Init, Phase, Settled, Sending, Handling, Assembling, Idle
  <2> QED
    BY <2>1 DEF Delivery!Init
<1>2. ReliableInv /\ [Next]_vars => [Delivery!Next]_(Delivery!vars)
  BY DeliveryStep
<1> QED
  BY <1>1, <1>2, ReliableInductive, PTL DEF Spec, Delivery!Safety
=============================================================================
