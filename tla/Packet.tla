------------------------------- MODULE Packet -------------------------------
(***************************************************************************)
(* The packets of the ./nexus network and the datagrams they travel as.    *)
(*                                                                         *)
(* A byte is the set of its bits that are 1.  An integer of the struct     *)
(* Packet is the sequence of its bytes in the memory of a little-endian    *)
(* host, where htonl and htons turn the order round.                       *)
(***************************************************************************)
EXTENDS Integers, SequencesExt

CONSTANT DataSize   \* MAX_BUFFER_SIZE

ASSUME PacketAssumption == DataSize \in Nat

Byte == SUBSET (0 .. 7)
ByteOf(n) == {b \in 0 .. 7 : (n \div 2^b) % 2 = 1}
Word(n) == [1 .. n -> Byte]

PacketFields ==
    [version : Byte,
     sAddress : Word(4), sPort : Word(2), tAddress : Word(4), tPort : Word(2),
     type : Byte, fragmentNumber : Word(2), fragmentCount : Word(2),
     data : Word(DataSize), errorCorrectionCode : Word(4)]

TEXT == {}          \* the bytes 0 and 1
FILE == {0}
PKT_VERSION == {0}

HeaderSize == 18
ContentSize == HeaderSize + DataSize
WireSize == ContentSize + 4

Zeros(n) == [k \in 1 .. n |-> {}]

(***************************************************************************)
(* A packet as the constructor leaves it: the data and the CRC are zero,   *)
(* the fragment fields are what the memory held.                           *)
(***************************************************************************)
NewPacket(from, to, type, garbage) ==
    [version |-> PKT_VERSION,
     sAddress |-> from.ip, sPort |-> from.port,
     tAddress |-> to.ip, tPort |-> to.port,
     type |-> type, fragmentNumber |-> garbage, fragmentCount |-> garbage,
     data |-> Zeros(DataSize), errorCorrectionCode |-> Zeros(4)]
-----------------------------------------------------------------------------
(* The CRC.                                                                *)

Xor(a, b) == (a \ b) \cup (b \ a)

Polynomial ==                                       \* 0xEDB88320
    {31, 30, 29, 27, 26, 24, 23, 21, 20, 19, 15, 9, 8, 5}
AllOnes == 0 .. 31

Register == SUBSET (0 .. 31)

(* crc >> 1, and the polynomial if a 1 was shifted out.                    *)
ShiftOut[crc \in Register] ==
    LET shifted == {b - 1 : b \in crc \ {0}}
    IN  IF 0 \in crc THEN Xor(shifted, Polynomial) ELSE shifted

(* One byte goes into the register: eight shifts.                          *)
AddByte[crc \in Register] ==
    [byte \in Byte |->
       LET shift[k \in 0 .. 8] ==
               IF k = 0 THEN Xor(crc, byte) ELSE ShiftOut[shift[k - 1]]
       IN  shift[8]]

RegisterAfter[content \in Seq(Byte)] ==
    LET crc[k \in 0 .. Len(content)] ==
            IF k = 0 THEN AllOnes ELSE AddByte[crc[k - 1]][content[k]]
    IN  crc[Len(content)]

(* The four bytes of a register as an integer of the host.                 *)
InMemory[crc \in Register] ==
    [k \in 1 .. 4 |-> {b \in 0 .. 7 : b + 8 * (k - 1) \in crc}]

\* mutant: the header is left out
CrcOfData(content) ==
    InMemory[AllOnes \ RegisterAfter[SubSeq(content, HeaderSize + 1, Len(content))]]

CalculateCRC(content) == InMemory[AllOnes \ RegisterAfter[content]]
-----------------------------------------------------------------------------
(* serialize and deserialize.                                              *)

\* htonl, htons, ntohl, ntohs
ByteSwapped[word \in Seq(Byte)] == Reverse(word)

Content(p) ==
    <<p.version>> \o ByteSwapped[p.sAddress] \o ByteSwapped[p.sPort]
      \o ByteSwapped[p.tAddress] \o ByteSwapped[p.tPort] \o <<p.type>>
      \o ByteSwapped[p.fragmentNumber] \o ByteSwapped[p.fragmentCount] \o p.data

Serialize(p) == Content(p) \o ByteSwapped[CalculateCRC(Content(p))]

(* The fields that deserialize finds in a datagram ...                     *)
Fields(wire) ==
    [version |-> wire[1],
     sAddress |-> ByteSwapped[SubSeq(wire, 2, 5)],
     sPort |-> ByteSwapped[SubSeq(wire, 6, 7)],
     tAddress |-> ByteSwapped[SubSeq(wire, 8, 11)],
     tPort |-> ByteSwapped[SubSeq(wire, 12, 13)],
     type |-> wire[14],
     fragmentNumber |-> ByteSwapped[SubSeq(wire, 15, 16)],
     fragmentCount |-> ByteSwapped[SubSeq(wire, 17, 18)],
     data |-> SubSeq(wire, HeaderSize + 1, ContentSize),
     errorCorrectionCode |-> ByteSwapped[SubSeq(wire, ContentSize + 1, WireSize)]]

\* mutants: compares the CRC with itself; does not turn its bytes round
VerifyNothing(p) == p.errorCorrectionCode = p.errorCorrectionCode
VerifyOnWire(p) ==
    CalculateCRC(Content(p)) = ByteSwapped[p.errorCorrectionCode]

(* ... and its check of them, which throws unless it holds.                *)
VerifyCRC(p) == CalculateCRC(Content(p)) = p.errorCorrectionCode
=============================================================================
