---------------------------- MODULE PacketProofs ----------------------------
(***************************************************************************)
(* What is proved of Packet, for every MAX_BUFFER_SIZE: what serialize     *)
(* writes, deserialize reads, and what has been changed in up to four      *)
(* neighbouring bytes it rejects.                                          *)
(***************************************************************************)
EXTENDS Packet, InductionProofs, SequenceTheorems, TLAPS

-----------------------------------------------------------------------------
(* Words.                                                                  *)

(* A word of n bytes is a sequence of n bytes, and the other way round.    *)
LEMMA WordIsSeq ==
    ASSUME NEW n \in Nat, NEW w
    PROVE  w \in Word(n) <=> w \in Seq(Byte) /\ Len(w) = n
<1>1. ASSUME w \in Word(n)
      PROVE  w \in Seq(Byte) /\ Len(w) = n
  <2>1. w \in Seq(Byte)
    BY <1>1, SeqDef DEF Word
  <2> QED
    BY <1>1, <2>1, LenProperties DEF Word
<1>2. ASSUME w \in Seq(Byte), Len(w) = n
      PROVE  w \in Word(n)
  BY <1>2, LenProperties DEF Word
<1> QED
  BY <1>1, <1>2

(* The bytes of a word, turned round.                                      *)
LEMMA SwappedIs ==
    ASSUME NEW n \in Nat, NEW w \in Word(n)
    PROVE  /\ ByteSwapped[w] = [i \in 1 .. n |-> w[(n - i) + 1]]
           /\ ByteSwapped[w] \in Word(n)
<1>1. w \in Seq(Byte) /\ Len(w) = n
  BY WordIsSeq
<1>2. ByteSwapped[w] = [i \in 1 .. n |-> w[(n - i) + 1]]
  BY <1>1 DEF ByteSwapped, Reverse
<1> QED
  BY <1>2 DEF Word

(* Turned round twice, a word is what it was.                              *)
LEMMA SwappedTwice ==
    ASSUME NEW n \in Nat, NEW w \in Word(n)
    PROVE  ByteSwapped[ByteSwapped[w]] = w
<1> DEFINE v == ByteSwapped[w]
<1>1. v = [i \in 1 .. n |-> w[(n - i) + 1]] /\ v \in Word(n)
  BY SwappedIs
<1>2. \A i \in 1 .. n : v[(n - i) + 1] = w[i]
  BY <1>1
<1> HIDE DEF v
<1>3. ByteSwapped[v] = [i \in 1 .. n |-> v[(n - i) + 1]]
  BY <1>1, SwappedIs
<1>4. ByteSwapped[v] = [i \in 1 .. n |-> w[i]]
  BY <1>2, <1>3
<1> QED
  BY <1>4 DEF Word, v

(* The parts of two words that are written one behind the other.           *)
LEMMA Behind ==
    ASSUME NEW m \in Nat, NEW n \in Nat, NEW v \in Word(m), NEW w \in Word(n)
    PROVE  /\ v \o w \in Word(m + n)
           /\ \A i \in 1 .. m : (v \o w)[i] = v[i]
           /\ \A i \in 1 .. n : (v \o w)[m + i] = w[i]
<1>1. /\ v \in Seq(Byte) /\ Len(v) = m
      /\ w \in Seq(Byte) /\ Len(w) = n
  BY WordIsSeq
<1>2. /\ v \o w \in Seq(Byte)
      /\ Len(v \o w) = m + n
      /\ \A i \in 1 .. m + n : (v \o w)[i] = IF i <= m THEN v[i] ELSE w[i - m]
  BY <1>1, ConcatProperties
<1>3. v \o w \in Word(m + n)
  <2>1. m + n \in Nat
    OBVIOUS
  <2> QED
    BY <1>2, <2>1, WordIsSeq
<1>4. \A i \in 1 .. m : (v \o w)[i] = v[i]
  BY <1>2
<1>5. ASSUME NEW i \in 1 .. n
      PROVE  (v \o w)[m + i] = w[i]
  <2>1. m + i \in 1 .. m + n /\ ~(m + i <= m) /\ (m + i) - m = i
    OBVIOUS
  <2> QED
    BY <1>2, <2>1
<1> QED
  BY <1>3, <1>4, <1>5

(* A word found in another from position k + 1 on.                         *)
LEMMA FoundAt ==
    ASSUME NEW s, NEW k \in Nat, NEW n \in Nat, NEW w \in Word(n),
           \A i \in 1 .. n : s[k + i] = w[i]
    PROVE  SubSeq(s, k + 1, k + n) = w
<1>1. ASSUME NEW i \in (k + 1) .. (k + n)
      PROVE  s[i] \in Byte
  <2>1. i - k \in 1 .. n /\ k + (i - k) = i
    OBVIOUS
  <2>2. s[k + (i - k)] = w[i - k]
    BY <2>1
  <2> QED
    BY <2>1, <2>2 DEF Word
<1>2. /\ SubSeq(s, k + 1, k + n) \in Seq(Byte)
      /\ Len(SubSeq(s, k + 1, k + n)) = n
      /\ \A i \in 1 .. n : SubSeq(s, k + 1, k + n)[i] = s[k + i]
  <2> DEFINE a == k + 1
             b == k + n
             t == SubSeq(s, a, b)
  <2>1. a \in Int /\ b \in Int /\ \A i \in a .. b : s[i] \in Byte
    BY <1>1
  <2> HIDE DEF a, b
  <2>2. /\ t \in Seq(Byte)
        /\ Len(t) = IF a <= b THEN b - a + 1 ELSE 0
        /\ \A i \in 1 .. b - a + 1 : t[i] = s[a + i - 1]
    BY <2>1, SubSeqProperties
  <2> QED
    BY <2>2 DEF a, b
<1>3. w \in Seq(Byte) /\ Len(w) = n
  BY WordIsSeq
<1> QED
  BY <1>2, <1>3, SeqEqual
-----------------------------------------------------------------------------
(* The datagram of a packet.                                               *)

(* The CRC is four bytes, whatever it is computed from.                    *)
LEMMA CrcType ==
    ASSUME NEW content
    PROVE  CalculateCRC(content) \in Word(4)
<1> DEFINE crc == AllOnes \ RegisterAfter[content]
<1>1. crc \in Register
  BY DEF AllOnes, Register
<1> HIDE DEF crc
<1>2. InMemory[crc] = [k \in 1 .. 4 |-> {b \in 0 .. 7 : b + 8 * (k - 1) \in crc}]
  BY <1>1 DEF InMemory
<1>3. InMemory[crc] \in Word(4)
  BY <1>2 DEF Word, Byte
<1> QED
  BY <1>3 DEF CalculateCRC, crc

(* Where each field of a packet is in what the CRC is computed from.       *)
LEMMA ContentLayout ==
    ASSUME NEW p \in PacketFields
    PROVE  /\ Content(p) \in Word(ContentSize)
           /\ Content(p)[1] = p.version
           /\ \A i \in 1 .. 4 : Content(p)[1 + i] = ByteSwapped[p.sAddress][i]
           /\ \A i \in 1 .. 2 : Content(p)[5 + i] = ByteSwapped[p.sPort][i]
           /\ \A i \in 1 .. 4 : Content(p)[7 + i] = ByteSwapped[p.tAddress][i]
           /\ \A i \in 1 .. 2 : Content(p)[11 + i] = ByteSwapped[p.tPort][i]
           /\ Content(p)[14] = p.type
           /\ \A i \in 1 .. 2 : Content(p)[14 + i] = ByteSwapped[p.fragmentNumber][i]
           /\ \A i \in 1 .. 2 : Content(p)[16 + i] = ByteSwapped[p.fragmentCount][i]
           /\ \A i \in 1 .. DataSize : Content(p)[18 + i] = p.data[i]
<1> DEFINE sa == ByteSwapped[p.sAddress]
           sp == ByteSwapped[p.sPort]
           ta == ByteSwapped[p.tAddress]
           tp == ByteSwapped[p.tPort]
           fn == ByteSwapped[p.fragmentNumber]
           fc == ByteSwapped[p.fragmentCount]
           c1 == <<p.version>>
           c2 == c1 \o sa
           c3 == c2 \o sp
           c4 == c3 \o ta
           c5 == c4 \o tp
           c6 == c5 \o <<p.type>>
           c7 == c6 \o fn
           c8 == c7 \o fc
           c9 == c8 \o p.data
<1>1. /\ sa \in Word(4) /\ sp \in Word(2) /\ ta \in Word(4) /\ tp \in Word(2)
      /\ fn \in Word(2) /\ fc \in Word(2)
  BY SwappedIs DEF PacketFields
<1>2. /\ c1 \in Word(1) /\ c1[1] = p.version
      /\ <<p.type>> \in Word(1) /\ <<p.type>>[1] = p.type
  BY DEF PacketFields, Word
<1>3. p.data \in Word(DataSize) /\ DataSize \in Nat
  BY PacketAssumption DEF PacketFields
<1>4. Content(p) = c9
  BY DEF Content
<1> DEFINE ty == <<p.type>>
           da == p.data
<1> HIDE DEF sa, sp, ta, tp, fn, fc, c1, ty, da
<1>5. /\ c2 = c1 \o sa /\ c3 = c2 \o sp /\ c4 = c3 \o ta /\ c5 = c4 \o tp
       /\ c6 = c5 \o ty /\ c7 = c6 \o fn /\ c8 = c7 \o fc /\ c9 = c8 \o da
  BY DEF ty, da
<1>6. ty \in Word(1) /\ da \in Word(DataSize)
  BY <1>2, <1>3 DEF ty, da
<1> HIDE DEF c2, c3, c4, c5, c6, c7, c8, c9
<1>7. \A n \in {1, 2, 4, 5, 7, 11, 13, 14, 16, 18, DataSize} : n \in Nat
  BY <1>3
<1>8. /\ c2 \in Word(5)
      /\ \A i \in 1 .. 1 : c2[i] = c1[i]
      /\ \A i \in 1 .. 4 : c2[1 + i] = sa[i]
  <2>1. c1 \in Word(1) /\ sa \in Word(4) /\ 1 \in Nat /\ 4 \in Nat
    BY <1>2, <1>1, <1>6, <1>7
  <2>2. /\ c1 \o sa \in Word(1 + 4)
        /\ \A i \in 1 .. 1 : (c1 \o sa)[i] = c1[i]
        /\ \A i \in 1 .. 4 : (c1 \o sa)[1 + i] = sa[i]
    BY <2>1, Behind, Zenon
  <2>3. 1 + 4 = 5 /\ c1 \o sa = c2
    BY <1>5
  <2> QED
    BY <2>2, <2>3, Zenon
<1>9. /\ c3 \in Word(7)
      /\ \A i \in 1 .. 5 : c3[i] = c2[i]
      /\ \A i \in 1 .. 2 : c3[5 + i] = sp[i]
  <2>1. c2 \in Word(5) /\ sp \in Word(2) /\ 5 \in Nat /\ 2 \in Nat
    BY <1>8, <1>1, <1>6, <1>7
  <2>2. /\ c2 \o sp \in Word(5 + 2)
        /\ \A i \in 1 .. 5 : (c2 \o sp)[i] = c2[i]
        /\ \A i \in 1 .. 2 : (c2 \o sp)[5 + i] = sp[i]
    BY <2>1, Behind, Zenon
  <2>3. 5 + 2 = 7 /\ c2 \o sp = c3
    BY <1>5
  <2> QED
    BY <2>2, <2>3, Zenon
<1>10. /\ c4 \in Word(11)
       /\ \A i \in 1 .. 7 : c4[i] = c3[i]
       /\ \A i \in 1 .. 4 : c4[7 + i] = ta[i]
  <2>1. c3 \in Word(7) /\ ta \in Word(4) /\ 7 \in Nat /\ 4 \in Nat
    BY <1>9, <1>1, <1>6, <1>7
  <2>2. /\ c3 \o ta \in Word(7 + 4)
        /\ \A i \in 1 .. 7 : (c3 \o ta)[i] = c3[i]
        /\ \A i \in 1 .. 4 : (c3 \o ta)[7 + i] = ta[i]
    BY <2>1, Behind, Zenon
  <2>3. 7 + 4 = 11 /\ c3 \o ta = c4
    BY <1>5
  <2> QED
    BY <2>2, <2>3, Zenon
<1>11. /\ c5 \in Word(13)
       /\ \A i \in 1 .. 11 : c5[i] = c4[i]
       /\ \A i \in 1 .. 2 : c5[11 + i] = tp[i]
  <2>1. c4 \in Word(11) /\ tp \in Word(2) /\ 11 \in Nat /\ 2 \in Nat
    BY <1>10, <1>1, <1>6, <1>7
  <2>2. /\ c4 \o tp \in Word(11 + 2)
        /\ \A i \in 1 .. 11 : (c4 \o tp)[i] = c4[i]
        /\ \A i \in 1 .. 2 : (c4 \o tp)[11 + i] = tp[i]
    BY <2>1, Behind, Zenon
  <2>3. 11 + 2 = 13 /\ c4 \o tp = c5
    BY <1>5
  <2> QED
    BY <2>2, <2>3, Zenon
<1>12. /\ c6 \in Word(14)
       /\ \A i \in 1 .. 13 : c6[i] = c5[i]
       /\ \A i \in 1 .. 1 : c6[13 + i] = ty[i]
  <2>1. c5 \in Word(13) /\ ty \in Word(1) /\ 13 \in Nat /\ 1 \in Nat
    BY <1>11, <1>1, <1>6, <1>7
  <2>2. /\ c5 \o ty \in Word(13 + 1)
        /\ \A i \in 1 .. 13 : (c5 \o ty)[i] = c5[i]
        /\ \A i \in 1 .. 1 : (c5 \o ty)[13 + i] = ty[i]
    BY <2>1, Behind, Zenon
  <2>3. 13 + 1 = 14 /\ c5 \o ty = c6
    BY <1>5
  <2> QED
    BY <2>2, <2>3, Zenon
<1>13. /\ c7 \in Word(16)
       /\ \A i \in 1 .. 14 : c7[i] = c6[i]
       /\ \A i \in 1 .. 2 : c7[14 + i] = fn[i]
  <2>1. c6 \in Word(14) /\ fn \in Word(2) /\ 14 \in Nat /\ 2 \in Nat
    BY <1>12, <1>1, <1>6, <1>7
  <2>2. /\ c6 \o fn \in Word(14 + 2)
        /\ \A i \in 1 .. 14 : (c6 \o fn)[i] = c6[i]
        /\ \A i \in 1 .. 2 : (c6 \o fn)[14 + i] = fn[i]
    BY <2>1, Behind, Zenon
  <2>3. 14 + 2 = 16 /\ c6 \o fn = c7
    BY <1>5
  <2> QED
    BY <2>2, <2>3, Zenon
<1>14. /\ c8 \in Word(18)
       /\ \A i \in 1 .. 16 : c8[i] = c7[i]
       /\ \A i \in 1 .. 2 : c8[16 + i] = fc[i]
  <2>1. c7 \in Word(16) /\ fc \in Word(2) /\ 16 \in Nat /\ 2 \in Nat
    BY <1>13, <1>1, <1>6, <1>7
  <2>2. /\ c7 \o fc \in Word(16 + 2)
        /\ \A i \in 1 .. 16 : (c7 \o fc)[i] = c7[i]
        /\ \A i \in 1 .. 2 : (c7 \o fc)[16 + i] = fc[i]
    BY <2>1, Behind, Zenon
  <2>3. 16 + 2 = 18 /\ c7 \o fc = c8
    BY <1>5
  <2> QED
    BY <2>2, <2>3, Zenon
<1>15. /\ c9 \in Word(18 + DataSize)
       /\ \A i \in 1 .. 18 : c9[i] = c8[i]
       /\ \A i \in 1 .. DataSize : c9[18 + i] = da[i]
  <2>1. c8 \in Word(18) /\ da \in Word(DataSize) /\ 18 \in Nat /\ DataSize \in Nat
    BY <1>14, <1>1, <1>6, <1>7
  <2>2. /\ c8 \o da \in Word(18 + DataSize)
        /\ \A i \in 1 .. 18 : (c8 \o da)[i] = c8[i]
        /\ \A i \in 1 .. DataSize : (c8 \o da)[18 + i] = da[i]
    BY <2>1, Behind, Zenon
  <2> QED
    BY <1>5, <2>2
<1>16. /\ c9[1] = p.version
       /\ \A i \in 1 .. 4 : c9[1 + i] = sa[i]
       /\ \A i \in 1 .. 2 : c9[5 + i] = sp[i]
       /\ \A i \in 1 .. 4 : c9[7 + i] = ta[i]
  BY <1>2, <1>8, <1>9, <1>10, <1>11, <1>12, <1>13, <1>14, <1>15
<1>17. /\ \A i \in 1 .. 2 : c9[11 + i] = tp[i]
       /\ c9[14] = p.type
       /\ \A i \in 1 .. 2 : c9[14 + i] = fn[i]
       /\ \A i \in 1 .. 2 : c9[16 + i] = fc[i]
       /\ \A i \in 1 .. DataSize : c9[18 + i] = da[i]
  BY <1>2, <1>11, <1>12, <1>13, <1>14, <1>15 DEF ty
<1> QED
  BY <1>4, <1>15, <1>16, <1>17 DEF sa, sp, ta, tp, fn, fc, da, ContentSize, HeaderSize

(* Content has no part of the CRC field.                                   *)
LEMMA ContentWithoutCrc ==
    ASSUME NEW p \in PacketFields, NEW crc \in Word(4)
    PROVE  /\ [p EXCEPT !.errorCorrectionCode = crc] \in PacketFields
           /\ Content([p EXCEPT !.errorCorrectionCode = crc]) = Content(p)
  BY DEF PacketFields, Content

(* A datagram is as long as WireSize says.                                 *)
LEMMA SerializeType ==
    ASSUME NEW p \in PacketFields
    PROVE  /\ Serialize(p) \in Word(WireSize)
           /\ \A i \in 1 .. ContentSize : Serialize(p)[i] = Content(p)[i]
           /\ \A i \in 1 .. 4 : Serialize(p)[ContentSize + i]
                                  = ByteSwapped[CalculateCRC(Content(p))][i]
<1> DEFINE c == Content(p)
           e == ByteSwapped[CalculateCRC(Content(p))]
<1>1. c \in Word(ContentSize)
  BY ContentLayout
<1>2. e \in Word(4)
  BY CrcType, SwappedIs
<1>3. ContentSize \in Nat /\ 4 \in Nat
  BY PacketAssumption DEF ContentSize, HeaderSize
<1>4. Serialize(p) = c \o e
  BY DEF Serialize
<1> HIDE DEF c, e
<1>5. /\ c \o e \in Word(ContentSize + 4)
      /\ \A i \in 1 .. ContentSize : (c \o e)[i] = c[i]
      /\ \A i \in 1 .. 4 : (c \o e)[ContentSize + i] = e[i]
  BY <1>1, <1>2, <1>3, Behind, Zenon
<1> QED
  BY <1>4, <1>5 DEF WireSize, c, e

(***************************************************************************)
(* RoundTrip: whatever the fields of a packet hold, in network order or    *)
(* not, deserialize finds them in what serialize wrote, with the CRC of    *)
(* the content; and a datagram that arrives as it was sent passes the      *)
(* check, so that a receiver thread is not ended by it.                    *)
(***************************************************************************)
THEOREM RoundTrip ==
    ASSUME NEW p \in PacketFields
    PROVE  /\ Fields(Serialize(p))
                = [p EXCEPT !.errorCorrectionCode = CalculateCRC(Content(p))]
           /\ VerifyCRC(Fields(Serialize(p)))
<1> DEFINE s == Serialize(p)
           crc == CalculateCRC(Content(p))
<1>1. /\ s \in Word(WireSize)
      /\ \A i \in 1 .. ContentSize : s[i] = Content(p)[i]
      /\ \A i \in 1 .. 4 : s[ContentSize + i] = ByteSwapped[crc][i]
  BY SerializeType
<1>2. crc \in Word(4)
  BY CrcType
<1>3. /\ ContentSize = 18 + DataSize /\ WireSize = 22 + DataSize
      /\ DataSize \in Nat /\ WireSize \in Nat /\ ContentSize \in Nat
  BY PacketAssumption DEF ContentSize, HeaderSize, WireSize
<1>4. /\ p.sAddress \in Word(4) /\ p.sPort \in Word(2)
      /\ p.tAddress \in Word(4) /\ p.tPort \in Word(2)
      /\ p.fragmentNumber \in Word(2) /\ p.fragmentCount \in Word(2)
      /\ p.data \in Word(DataSize)
      /\ p = [version |-> p.version, sAddress |-> p.sAddress,
              sPort |-> p.sPort, tAddress |-> p.tAddress, tPort |-> p.tPort,
              type |-> p.type, fragmentNumber |-> p.fragmentNumber,
              fragmentCount |-> p.fragmentCount, data |-> p.data,
              errorCorrectionCode |-> p.errorCorrectionCode]
  BY DEF PacketFields
<1>5. /\ s[1] = p.version /\ s[14] = p.type
      /\ \A i \in 1 .. 4 : s[1 + i] = ByteSwapped[p.sAddress][i]
      /\ \A i \in 1 .. 2 : s[5 + i] = ByteSwapped[p.sPort][i]
      /\ \A i \in 1 .. 4 : s[7 + i] = ByteSwapped[p.tAddress][i]
      /\ \A i \in 1 .. 2 : s[11 + i] = ByteSwapped[p.tPort][i]
      /\ \A i \in 1 .. 2 : s[14 + i] = ByteSwapped[p.fragmentNumber][i]
      /\ \A i \in 1 .. 2 : s[16 + i] = ByteSwapped[p.fragmentCount][i]
      /\ \A i \in 1 .. DataSize : s[18 + i] = p.data[i]
  <2> HIDE DEF s
  <2> QED
    BY <1>1, <1>3, ContentLayout
<1> HIDE DEF s, crc
<1>6. ASSUME NEW k \in Nat, NEW n \in Nat, NEW w \in Word(n),
             \A i \in 1 .. n : s[k + i] = ByteSwapped[w][i]
      PROVE  ByteSwapped[SubSeq(s, k + 1, k + n)] = w
  <2> DEFINE v == ByteSwapped[w]
  <2>1. v \in Word(n) /\ (\A i \in 1 .. n : s[k + i] = v[i])
    BY <1>6, SwappedIs
  <2> HIDE DEF v
  <2>2. SubSeq(s, k + 1, k + n) = v
    BY <2>1, FoundAt, Zenon
  <2> QED
    BY <2>2, SwappedTwice DEF v
<1>7. /\ ByteSwapped[SubSeq(s, 1 + 1, 1 + 4)] = p.sAddress
      /\ ByteSwapped[SubSeq(s, 5 + 1, 5 + 2)] = p.sPort
      /\ ByteSwapped[SubSeq(s, 7 + 1, 7 + 4)] = p.tAddress
      /\ ByteSwapped[SubSeq(s, 11 + 1, 11 + 2)] = p.tPort
      /\ ByteSwapped[SubSeq(s, 14 + 1, 14 + 2)] = p.fragmentNumber
      /\ ByteSwapped[SubSeq(s, 16 + 1, 16 + 2)] = p.fragmentCount
      /\ ByteSwapped[SubSeq(s, ContentSize + 1, ContentSize + 4)] = crc
  <2>1. \A k \in {1, 2, 4, 5, 7, 11, 14, 16, ContentSize} : k \in Nat
    BY <1>3
  <2>2. ByteSwapped[SubSeq(s, 1 + 1, 1 + 4)] = p.sAddress
    BY <1>4, <1>5, <1>6, <2>1, Zenon
  <2>3. ByteSwapped[SubSeq(s, 5 + 1, 5 + 2)] = p.sPort
    BY <1>4, <1>5, <1>6, <2>1, Zenon
  <2>4. ByteSwapped[SubSeq(s, 7 + 1, 7 + 4)] = p.tAddress
    BY <1>4, <1>5, <1>6, <2>1, Zenon
  <2>5. ByteSwapped[SubSeq(s, 11 + 1, 11 + 2)] = p.tPort
    BY <1>4, <1>5, <1>6, <2>1, Zenon
  <2>6. ByteSwapped[SubSeq(s, 14 + 1, 14 + 2)] = p.fragmentNumber
    BY <1>4, <1>5, <1>6, <2>1, Zenon
  <2>7. ByteSwapped[SubSeq(s, 16 + 1, 16 + 2)] = p.fragmentCount
    BY <1>4, <1>5, <1>6, <2>1, Zenon
  <2>8. ByteSwapped[SubSeq(s, ContentSize + 1, ContentSize + 4)] = crc
    BY <1>1, <1>2, <1>3, <1>6, <2>1, Zenon DEF crc
  <2> QED
    BY <2>2, <2>3, <2>4, <2>5, <2>6, <2>7, <2>8
<1>8. SubSeq(s, 18 + 1, 18 + DataSize) = p.data
  <2> DEFINE v == p.data
  <2>1. v \in Word(DataSize) /\ (\A i \in 1 .. DataSize : s[18 + i] = v[i])
    BY <1>4, <1>5
  <2> HIDE DEF v
  <2>2. 18 \in Nat /\ DataSize \in Nat
    BY <1>3
  <2>3. SubSeq(s, 18 + 1, 18 + DataSize) = v
    BY <2>1, <2>2, FoundAt, Zenon
  <2> QED
    BY <2>3 DEF v
<1>9. Fields(s) = [p EXCEPT !.errorCorrectionCode = crc]
  <2>1. /\ 1 + 1 = 2 /\ 1 + 4 = 5 /\ 5 + 1 = 6 /\ 5 + 2 = 7 /\ 7 + 1 = 8
        /\ 7 + 4 = 11 /\ 11 + 1 = 12 /\ 11 + 2 = 13 /\ 14 + 1 = 15
        /\ 14 + 2 = 16 /\ 16 + 1 = 17 /\ 16 + 2 = 18
        /\ ContentSize + 4 = WireSize /\ 18 + DataSize = ContentSize
    BY <1>3
  <2>2. /\ ByteSwapped[SubSeq(s, 2, 5)] = p.sAddress
        /\ ByteSwapped[SubSeq(s, 6, 7)] = p.sPort
        /\ ByteSwapped[SubSeq(s, 8, 11)] = p.tAddress
        /\ ByteSwapped[SubSeq(s, 12, 13)] = p.tPort
        /\ ByteSwapped[SubSeq(s, 15, 16)] = p.fragmentNumber
        /\ ByteSwapped[SubSeq(s, 17, 18)] = p.fragmentCount
        /\ ByteSwapped[SubSeq(s, ContentSize + 1, WireSize)] = crc
        /\ SubSeq(s, HeaderSize + 1, ContentSize) = p.data
    BY <1>7, <1>8, <2>1, Zenon DEF HeaderSize
  <2> DEFINE r == [version |-> p.version, sAddress |-> p.sAddress,
              sPort |-> p.sPort, tAddress |-> p.tAddress, tPort |-> p.tPort,
              type |-> p.type, fragmentNumber |-> p.fragmentNumber,
              fragmentCount |-> p.fragmentCount, data |-> p.data,
              errorCorrectionCode |-> crc]
  <2>3. r = [p EXCEPT !.errorCorrectionCode = crc]
    BY <1>4
  <2>4. Fields(s) = r
    BY <1>5, <2>2, Zenon DEF Fields
  <2> QED
    BY <2>3, <2>4
<1>10. VerifyCRC(Fields(s))
  <2>1. Content(Fields(s)) = Content(p)
    BY <1>2, <1>9, ContentWithoutCrc
  <2>2. Fields(s).errorCorrectionCode = crc
    BY <1>4, <1>9
  <2> QED
    BY <2>1, <2>2 DEF VerifyCRC, crc
<1> QED
  BY <1>9, <1>10 DEF s, crc

(***************************************************************************)
(* RelayedUnchanged: a relay, which serializes what it has deserialized,   *)
(* sends on exactly the datagram it has received, CRC included.            *)
(***************************************************************************)
THEOREM RelayedUnchanged ==
    ASSUME NEW p \in PacketFields
    PROVE  /\ Fields(Serialize(p)) \in PacketFields
           /\ Serialize(Fields(Serialize(p))) = Serialize(p)
<1> DEFINE q == [p EXCEPT !.errorCorrectionCode = CalculateCRC(Content(p))]
<1>1. q \in PacketFields /\ Content(q) = Content(p)
  BY CrcType, ContentWithoutCrc
<1>2. Fields(Serialize(p)) = q
  BY RoundTrip
<1>3. Serialize(q) = Serialize(p)
  BY <1>1 DEF Serialize
<1> QED
  BY <1>1, <1>2, <1>3
-----------------------------------------------------------------------------
(* What the CRC detects.                                                   *)

(* Two registers agree on the bits from j on and on those below m.         *)
Agree(x, y, j, m) ==
    \A b \in 0 .. 31 : j <= b \/ b < m => (b \in x <=> b \in y)

LEMMA AgreeEverywhere ==
    ASSUME NEW x \in Register, NEW y \in Register, NEW j \in Nat, Agree(x, y, j, j)
    PROVE  x = y
<1>1. \A b \in 0 .. 31 : b \in x <=> b \in y
  BY DEF Agree
<1>2. x \subseteq 0 .. 31 /\ y \subseteq 0 .. 31
  BY DEF Register
<1> QED
  BY <1>1, <1>2

(* One bit of a shifted register.                                          *)
LEMMA ShiftOutBit ==
    ASSUME NEW x \in Register
    PROVE  /\ ShiftOut[x] \in Register
           /\ \A b \in 0 .. 31 :
                b \in ShiftOut[x] <=> ~(b + 1 \in x <=> 0 \in x /\ b \in Polynomial)
<1> DEFINE shifted == {b - 1 : b \in x \ {0}}
<1>1. ShiftOut[x] = IF 0 \in x THEN Xor(shifted, Polynomial) ELSE shifted
  BY DEF ShiftOut
<1>2. x \subseteq 0 .. 31
  BY DEF Register
<1>3. ASSUME NEW b \in 0 .. 31 PROVE b \in shifted <=> b + 1 \in x
  <2>1. ASSUME b + 1 \in x PROVE b \in shifted
    <3>1. b + 1 \in x \ {0} /\ b = (b + 1) - 1
      BY <2>1
    <3> QED
      BY <3>1
  <2>2. ASSUME b \in shifted PROVE b + 1 \in x
    <3>1. PICK a \in x \ {0} : b = a - 1
      BY <2>2
    <3>2. b + 1 = a
      BY <1>2, <3>1
    <3> QED
      BY <3>2
  <2> QED
    BY <2>1, <2>2
<1>4. shifted \subseteq 0 .. 31
  BY <1>2
<1>5. Polynomial \subseteq 0 .. 31
  BY DEF Polynomial
<1> HIDE DEF shifted
<1>6. ShiftOut[x] \in Register
  BY <1>1, <1>4, <1>5 DEF Register, Xor
<1>7. \A b \in 0 .. 31 :
        b \in ShiftOut[x] <=> ~(b + 1 \in x <=> 0 \in x /\ b \in Polynomial)
  BY <1>1, <1>3 DEF Xor
<1> QED
  BY <1>6, <1>7

(* The bit that is shifted out is seen in bit 31; so what two registers    *)
(* agree on after a shift they agreed on, one place higher, before it.     *)
LEMMA ShiftBack ==
    ASSUME NEW x \in Register, NEW y \in Register, NEW j \in 0 .. 31, NEW m \in Nat,
           Agree(ShiftOut[x], ShiftOut[y], j, m)
    PROVE  Agree(x, y, j + 1, m + 1)
<1>1. x \subseteq 0 .. 31 /\ y \subseteq 0 .. 31
  BY DEF Register
<1>2. 31 \in Polynomial
  BY DEF Polynomial
<1>3. 31 \in ShiftOut[x] <=> 0 \in x
  <2>1. 31 + 1 \notin x
    BY <1>1
  <2> QED
    BY <1>2, <2>1, ShiftOutBit
<1>4. 31 \in ShiftOut[y] <=> 0 \in y
  <2>1. 31 + 1 \notin y
    BY <1>1
  <2> QED
    BY <1>2, <2>1, ShiftOutBit
<1>5. 0 \in x <=> 0 \in y
  <2>1. 31 \in 0 .. 31 /\ j <= 31
    OBVIOUS
  <2> QED
    BY <1>3, <1>4, <2>1 DEF Agree
<1>6. ASSUME NEW b \in 0 .. 31, j + 1 <= b \/ b < m + 1
      PROVE  b \in x <=> b \in y
  <2>1. CASE b = 0
    BY <1>5, <2>1
  <2>2. CASE b # 0
    <3> DEFINE a == b - 1
    <3>1. a \in 0 .. 31 /\ a + 1 = b /\ (j <= a \/ a < m)
      BY <1>6, <2>2
    <3> HIDE DEF a
    <3>2. a \in ShiftOut[x] <=> a \in ShiftOut[y]
      BY <3>1 DEF Agree
    <3>3. /\ a \in ShiftOut[x] <=> ~(a + 1 \in x <=> 0 \in x /\ a \in Polynomial)
          /\ a \in ShiftOut[y] <=> ~(a + 1 \in y <=> 0 \in y /\ a \in Polynomial)
      BY <3>1, ShiftOutBit
    <3> QED
      BY <1>5, <3>1, <3>2, <3>3
  <2> QED
    BY <2>1, <2>2
<1> QED
  BY <1>6 DEF Agree

LEMMA XorType ==
    ASSUME NEW r \in Register, NEW b \in Byte
    PROVE  Xor(r, b) \in Register
<1>1. r \subseteq 0 .. 31 /\ b \subseteq 0 .. 31
  BY DEF Register, Byte
<1> QED
  BY <1>1 DEF Xor, Register

(* A byte that goes into the register is eight shifts.                     *)
LEMMA AddByteShifts ==
    ASSUME NEW r \in Register, NEW b \in Byte
    PROVE  \E f \in [0 .. 8 -> Register] :
             /\ f[0] = Xor(r, b)
             /\ \A k \in 1 .. 8 : f[k] = ShiftOut[f[k - 1]]
             /\ AddByte[r][b] = f[8]
<1> DEFINE base == Xor(r, b)
           step == [k \in 1 .. 8 |-> ShiftOut]
           Solves(f) ==
             f = [k \in 0 .. 8 |-> IF k = 0 THEN base ELSE ShiftOut[f[k - 1]]]
           shift == CHOOSE f : Solves(f)
<1>1. base \in Register
  BY XorType
<1>2. IsStep(step, 8, Register)
  BY ShiftOutBit DEF IsStep
<1> HIDE DEF base
<1>3. PICK f \in [0 .. 8 -> Register] :
        f[0] = base /\ \A k \in 1 .. 8 : f[k] = step[k][f[k - 1]]
  <2> DEFINE n == 8
  <2>1. n \in Nat /\ IsStep(step, n, Register)
    BY <1>2
  <2> HIDE DEF step, n
  <2>2. \E f \in [0 .. n -> Register] :
          f[0] = base /\ \A k \in 1 .. n : f[k] = step[k][f[k - 1]]
    BY <1>1, <2>1, RecursiveFunction
  <2> QED
    BY <2>2 DEF n
<1>4. Solves(f)
  BY <1>3
<1>5. Solves(shift)
  <2> HIDE DEF Solves
  <2> QED
    BY <1>4
<1> HIDE DEF shift
<1>6. shift[0] = base /\ \A k \in 1 .. 8 : shift[k] = ShiftOut[shift[k - 1]]
  BY <1>5
<1>7. \A k \in 0 .. 8 : shift[k] \in Register
  <2> DEFINE T == {k \in 0 .. 8 : shift[k] \in Register}
  <2>1. 0 \in T /\ \A k \in 1 .. 8 : k - 1 \in T => k \in T
    BY <1>1, <1>6, ShiftOutBit
  <2> HIDE DEF T
  <2>2. 8 \in Nat
    OBVIOUS
  <2>3. \A k \in 0 .. 8 : k \in T
    BY <2>1, <2>2, UpTo
  <2> QED
    BY <2>3 DEF T
<1>8. shift \in [0 .. 8 -> Register]
  <2>1. shift = [k \in 0 .. 8 |-> IF k = 0 THEN base ELSE ShiftOut[shift[k - 1]]]
    BY <1>5
  <2> QED
    BY <1>7, <2>1
<1>9. AddByte[r][b] = shift[8]
  BY DEF AddByte, shift, base
<1> QED
  BY <1>6, <1>8, <1>9 DEF base

(* What two registers agree on after a byte they agreed on, eight places   *)
(* higher, before it went in, and on the byte that met the register.       *)
LEMMA ByteBack ==
    ASSUME NEW r \in Register, NEW s \in Register, NEW b \in Byte, NEW c \in Byte,
           NEW j \in 0 .. 24, Agree(AddByte[r][b], AddByte[s][c], j, 0)
    PROVE  Agree(Xor(r, b), Xor(s, c), j + 8, 8)
<1>1. PICK f \in [0 .. 8 -> Register] :
        /\ f[0] = Xor(r, b)
        /\ \A k \in 1 .. 8 : f[k] = ShiftOut[f[k - 1]]
        /\ AddByte[r][b] = f[8]
  BY AddByteShifts
<1>2. PICK g \in [0 .. 8 -> Register] :
        /\ g[0] = Xor(s, c)
        /\ \A k \in 1 .. 8 : g[k] = ShiftOut[g[k - 1]]
        /\ AddByte[s][c] = g[8]
  BY AddByteShifts
<1> DEFINE T == {k \in 0 .. 8 : Agree(f[8 - k], g[8 - k], j + k, k)}
<1>3. 0 \in T
  BY <1>1, <1>2
<1>4. ASSUME NEW k \in 1 .. 8, k - 1 \in T PROVE k \in T
  <2> DEFINE a == 8 - k
             i == j + (k - 1)
             m == k - 1
  <2>1. /\ a + 1 \in 1 .. 8 /\ a \in 0 .. 8 /\ (a + 1) - 1 = a
        /\ 8 - (k - 1) = a + 1 /\ i \in 0 .. 31 /\ m \in Nat
        /\ i + 1 = j + k /\ m + 1 = k
    OBVIOUS
  <2>2. Agree(f[a + 1], g[a + 1], i, m)
    <3>1. Agree(f[8 - (k - 1)], g[8 - (k - 1)], j + (k - 1), k - 1)
      BY <1>4
    <3> QED
      BY <2>1, <3>1
  <2> HIDE DEF a, i, m
  <2>3. f[a + 1] = ShiftOut[f[a]] /\ g[a + 1] = ShiftOut[g[a]]
    BY <1>1, <1>2, <2>1
  <2>4. f[a] \in Register /\ g[a] \in Register
    BY <2>1
  <2>5. Agree(f[a], g[a], i + 1, m + 1)
    BY <2>1, <2>2, <2>3, <2>4, ShiftBack
  <2> QED
    BY <2>1, <2>5 DEF a
<1> HIDE DEF T
<1>5. 8 \in T
  <2>1. 8 \in Nat /\ 8 \in 0 .. 8
    OBVIOUS
  <2> QED
    BY <1>3, <1>4, <2>1, UpTo
<1>6. Agree(f[0], g[0], j + 8, 8)
  BY <1>5 DEF T
<1> QED
  BY <1>1, <1>2, <1>6

LEMMA AddByteType ==
    ASSUME NEW r \in Register, NEW b \in Byte
    PROVE  AddByte[r][b] \in Register
<1>1. PICK f \in [0 .. 8 -> Register] : AddByte[r][b] = f[8]
  BY AddByteShifts
<1> QED
  BY <1>1

(* A byte touches the lowest eight bits of the register only.              *)
LEMMA BeforeXor ==
    ASSUME NEW r \in Register, NEW s \in Register, NEW b \in Byte, NEW c \in Byte,
           NEW j \in Nat, 8 <= j, Agree(Xor(r, b), Xor(s, c), j, 8)
    PROVE  /\ Agree(r, s, j, 0)
           /\ r = s => b = c
           /\ b = c => Agree(r, s, j, 8)
<1>1. \A i \in 0 .. 31 : j <= i => i \notin b /\ i \notin c
  BY DEF Byte
<1>2. Agree(r, s, j, 0)
  BY <1>1 DEF Agree, Xor
<1>3. ASSUME r = s PROVE b = c
  <2>1. \A i \in 0 .. 7 : i \in Xor(r, b) <=> i \in Xor(s, c)
    BY DEF Agree
  <2>2. \A i \in 0 .. 7 : i \in b <=> i \in c
    BY <1>3, <2>1 DEF Xor
  <2>3. b \subseteq 0 .. 7 /\ c \subseteq 0 .. 7
    BY DEF Byte
  <2> QED
    BY <2>2, <2>3
<1>4. ASSUME b = c PROVE Agree(r, s, j, 8)
  BY <1>4 DEF Agree, Xor
<1> QED
  BY <1>2, <1>3, <1>4

(* No two registers become one by the same byte.                           *)
LEMMA AddByteInjective ==
    ASSUME NEW r \in Register, NEW s \in Register, NEW b \in Byte,
           AddByte[r][b] = AddByte[s][b]
    PROVE  r = s
<1>1. Agree(AddByte[r][b], AddByte[s][b], 0, 0)
  BY DEF Agree
<1>2. 0 \in 0 .. 24 /\ 0 + 8 = 8
  OBVIOUS
<1>3. Agree(Xor(r, b), Xor(s, b), 8, 8)
  BY <1>1, <1>2, ByteBack
<1>4. 8 \in Nat /\ 8 <= 8
  OBVIOUS
<1>5. Agree(r, s, 8, 8)
  BY <1>3, <1>4, BeforeXor
<1> QED
  BY <1>4, <1>5, AgreeEverywhere

(* The register on its way through the content.                            *)
LEMMA RegisterSteps ==
    ASSUME NEW n \in Nat, NEW content \in Word(n)
    PROVE  \E f \in [0 .. n -> Register] :
             /\ f[0] = AllOnes
             /\ \A k \in 1 .. n : f[k] = AddByte[f[k - 1]][content[k]]
             /\ RegisterAfter[content] = f[n]
<1> DEFINE step == [k \in 1 .. n |-> [x \in Register |-> AddByte[x][content[k]]]]
           Solves(f) ==
             f = [k \in 0 .. n |-> IF k = 0 THEN AllOnes ELSE AddByte[f[k - 1]][content[k]]]
           crc == CHOOSE f : Solves(f)
<1>1. AllOnes \in Register
  BY DEF AllOnes, Register
<1>2. \A k \in 1 .. n : content[k] \in Byte
  BY DEF Word
<1>3. IsStep(step, n, Register)
  BY <1>2, AddByteType DEF IsStep
<1>4. PICK f \in [0 .. n -> Register] :
        f[0] = AllOnes /\ \A k \in 1 .. n : f[k] = step[k][f[k - 1]]
  <2> HIDE DEF step
  <2> QED
    BY <1>1, <1>3, RecursiveFunction
<1>5. Solves(f)
  <2>1. ASSUME NEW k \in 0 .. n, k # 0 PROVE f[k] = AddByte[f[k - 1]][content[k]]
    <3>1. k \in 1 .. n /\ f[k - 1] \in Register
      BY <2>1
    <3> QED
      BY <1>4, <3>1
  <2> QED
    BY <1>4, <2>1
<1>6. Solves(crc)
  <2> HIDE DEF Solves
  <2> QED
    BY <1>5
<1> HIDE DEF crc
<1>7. crc[0] = AllOnes /\ \A k \in 1 .. n : crc[k] = AddByte[crc[k - 1]][content[k]]
  BY <1>6
<1>8. \A k \in 0 .. n : crc[k] \in Register
  <2> DEFINE T == {k \in 0 .. n : crc[k] \in Register}
  <2>1. 0 \in T /\ \A k \in 1 .. n : k - 1 \in T => k \in T
    BY <1>1, <1>2, <1>7, AddByteType
  <2> HIDE DEF T
  <2>2. \A k \in 0 .. n : k \in T
    BY <2>1, UpTo
  <2> QED
    BY <2>2 DEF T
<1>9. crc \in [0 .. n -> Register]
  <2>1. crc = [k \in 0 .. n |-> IF k = 0 THEN AllOnes ELSE AddByte[crc[k - 1]][content[k]]]
    BY <1>6
  <2> QED
    BY <1>8, <2>1
<1>10. RegisterAfter[content] = crc[n]
  <2>1. content \in Seq(Byte) /\ Len(content) = n
    BY WordIsSeq
  <2> QED
    BY <2>1 DEF RegisterAfter, crc
<1> QED
  BY <1>7, <1>9, <1>10

(* Four bytes that take the same register to the same register are the     *)
(* same bytes: there are no more registers than sequences of four bytes.   *)
LEMMA FourBytes ==
    ASSUME NEW f \in [0 .. 4 -> Register], NEW g \in [0 .. 4 -> Register],
           NEW b \in Word(4), NEW c \in Word(4),
           \A k \in 1 .. 4 : /\ f[k] = AddByte[f[k - 1]][b[k]]
                             /\ g[k] = AddByte[g[k - 1]][c[k]],
           f[0] = g[0], f[4] = g[4]
    PROVE  b = c
<1>1. /\ \A k \in 1 .. 4 : /\ b[k] \in Byte /\ c[k] \in Byte
                           /\ k - 1 \in 0 .. 4 /\ k \in 0 .. 4
      /\ \A k \in 0 .. 4 : f[k] \in Register /\ g[k] \in Register
  BY DEF Word
<1>2. ASSUME NEW k \in 1 .. 4, NEW j \in {0, 8, 16, 24}, Agree(f[k], g[k], j, 0)
      PROVE  /\ Agree(f[k - 1], g[k - 1], j + 8, 0)
             /\ f[k - 1] = g[k - 1] => b[k] = c[k]
  <2> DEFINE r == f[k - 1]
             s == g[k - 1]
             x == b[k]
             y == c[k]
  <2>1. r \in Register /\ s \in Register /\ x \in Byte /\ y \in Byte
    BY <1>1
  <2>2. Agree(AddByte[r][x], AddByte[s][y], j, 0)
    BY <1>2
  <2>3. j \in 0 .. 24 /\ j + 8 \in Nat /\ 8 <= j + 8
    BY <1>2
  <2> HIDE DEF r, s, x, y
  <2>4. Agree(Xor(r, x), Xor(s, y), j + 8, 8)
    BY <2>1, <2>2, <2>3, ByteBack
  <2>5. Agree(r, s, j + 8, 0) /\ (r = s => x = y)
    BY <2>1, <2>3, <2>4, BeforeXor
  <2> QED
    BY <2>5 DEF r, s, x, y
<1>3. Agree(f[4], g[4], 0, 0)
  BY DEF Agree
<1>4. Agree(f[3], g[3], 8, 0)
  <2>1. 4 \in 1 .. 4 /\ 4 - 1 = 3 /\ 0 + 8 = 8
    OBVIOUS
  <2> QED
    BY <1>2, <1>3, <2>1
<1>5. Agree(f[2], g[2], 16, 0)
  <2>1. 3 \in 1 .. 4 /\ 3 - 1 = 2 /\ 8 + 8 = 16
    OBVIOUS
  <2> QED
    BY <1>2, <1>4, <2>1
<1>6. Agree(f[1], g[1], 24, 0)
  <2>1. 2 \in 1 .. 4 /\ 2 - 1 = 1 /\ 16 + 8 = 24
    OBVIOUS
  <2> QED
    BY <1>2, <1>5, <2>1
<1>7. b[1] = c[1] /\ f[1] = g[1]
  <2>1. 1 \in 1 .. 4 /\ 1 - 1 = 0
    OBVIOUS
  <2> QED
    BY <1>2, <1>6, <2>1
<1>8. b[2] = c[2] /\ f[2] = g[2]
  <2>1. 2 \in 1 .. 4 /\ 2 - 1 = 1
    OBVIOUS
  <2> QED
    BY <1>2, <1>5, <1>7, <2>1
<1>9. b[3] = c[3] /\ f[3] = g[3]
  <2>1. 3 \in 1 .. 4 /\ 3 - 1 = 2
    OBVIOUS
  <2> QED
    BY <1>2, <1>4, <1>8, <2>1
<1>10. b[4] = c[4]
  <2>1. 4 \in 1 .. 4 /\ 4 - 1 = 3
    OBVIOUS
  <2> QED
    BY <1>2, <1>3, <1>9, <2>1
<1>11. \A k \in 1 .. 4 : b[k] = c[k]
  BY <1>7, <1>8, <1>9, <1>10
<1> QED
  BY <1>11 DEF Word

(* Words of n bytes that are the same but for the four behind the i-th.    *)
SameBut4(c, d, n, i) == \A k \in 1 .. n : k \notin i + 1 .. i + 4 => c[k] = d[k]

(***************************************************************************)
(* Contents that differ in no more than four bytes next to each other have *)
(* different CRCs: the bytes before leave the same register, and those     *)
(* behind keep different registers different.                              *)
(***************************************************************************)
LEMMA ShortChange ==
    ASSUME NEW n \in Nat, NEW c \in Word(n), NEW d \in Word(n),
           NEW i \in 0 .. n - 4, SameBut4(c, d, n, i),
           RegisterAfter[c] = RegisterAfter[d]
    PROVE  c = d
<1> USE DEF SameBut4
<1>1. PICK f \in [0 .. n -> Register] :
        /\ f[0] = AllOnes
        /\ \A k \in 1 .. n : f[k] = AddByte[f[k - 1]][c[k]]
        /\ RegisterAfter[c] = f[n]
  BY RegisterSteps
<1>2. PICK g \in [0 .. n -> Register] :
        /\ g[0] = AllOnes
        /\ \A k \in 1 .. n : g[k] = AddByte[g[k - 1]][d[k]]
        /\ RegisterAfter[d] = g[n]
  BY RegisterSteps
<1>3. /\ i \in Nat /\ i + 4 \in 0 .. n /\ n - (i + 4) \in Nat
      /\ \A k \in 1 .. n : c[k] \in Byte /\ d[k] \in Byte
      /\ \A k \in 0 .. n : f[k] \in Register /\ g[k] \in Register
  BY DEF Word
<1>4. f[i] = g[i]
  <2> DEFINE T == {k \in 0 .. n : f[k] = g[k]}
  <2>1. 0 \in T
    BY <1>1, <1>2
  <2>2. ASSUME NEW k \in 1 .. i, k - 1 \in T PROVE k \in T
    <3>1. k \in 1 .. n /\ k \notin i + 1 .. i + 4
      BY <1>3
    <3>2. c[k] = d[k]
      BY <3>1
    <3> QED
      BY <1>1, <1>2, <2>2, <3>1, <3>2
  <2> HIDE DEF T
  <2>3. \A k \in 0 .. i : k \in T
    BY <1>3, <2>1, <2>2, UpTo
  <2>4. i \in T
    BY <1>3, <2>3
  <2> QED
    BY <2>4 DEF T
<1>5. f[i + 4] = g[i + 4]
  <2> DEFINE rest == n - (i + 4)
             T == {k \in 0 .. n : f[n - k] = g[n - k]}
  <2>1. 0 \in T
    <3>1. f[n] = g[n]
      BY <1>1, <1>2
    <3>2. n - 0 = n /\ 0 \in 0 .. n
      OBVIOUS
    <3> QED
      BY <3>1, <3>2
  <2>2. ASSUME NEW k \in 1 .. rest, k - 1 \in T PROVE k \in T
    <3> DEFINE m == n - k
    <3>1. /\ m + 1 \in 1 .. n /\ m \in 0 .. n /\ m + 1 \notin i + 1 .. i + 4
          /\ (m + 1) - 1 = m /\ n - (k - 1) = m + 1 /\ k \in 0 .. n
      BY <1>3
    <3>2. f[m + 1] = g[m + 1]
      BY <2>2, <3>1
    <3> HIDE DEF m
    <3>3. c[m + 1] = d[m + 1]
      BY <3>1
    <3>4. f[m + 1] = AddByte[f[m]][c[m + 1]] /\ g[m + 1] = AddByte[g[m]][d[m + 1]]
      BY <1>1, <1>2, <3>1
    <3>5. f[m] \in Register /\ g[m] \in Register /\ c[m + 1] \in Byte
      BY <1>3, <3>1
    <3>6. AddByte[f[m]][c[m + 1]] = AddByte[g[m]][c[m + 1]]
      BY <3>2, <3>3, <3>4
    <3>7. f[m] = g[m]
      BY <3>5, <3>6, AddByteInjective
    <3> QED
      BY <3>1, <3>7 DEF m
  <2>3. rest \in Nat /\ rest \in 0 .. rest /\ n - rest = i + 4
    BY <1>3
  <2> HIDE DEF T, rest
  <2>4. \A k \in 0 .. rest : k \in T
    BY <2>1, <2>2, <2>3, UpTo
  <2>5. rest \in T
    BY <2>3, <2>4
  <2> QED
    BY <2>3, <2>5 DEF T
<1> DEFINE ff == [k \in 0 .. 4 |-> f[i + k]]
           gg == [k \in 0 .. 4 |-> g[i + k]]
           cc == [k \in 1 .. 4 |-> c[i + k]]
           dd == [k \in 1 .. 4 |-> d[i + k]]
<1>6. /\ \A k \in 0 .. 4 : i + k \in 0 .. n
      /\ \A k \in 1 .. 4 : /\ i + k \in 1 .. n /\ k - 1 \in 0 .. 4 /\ k \in 0 .. 4
                           /\ (i + k) - 1 = i + (k - 1)
  BY <1>3
<1>7. /\ ff \in [0 .. 4 -> Register] /\ gg \in [0 .. 4 -> Register]
      /\ cc \in Word(4) /\ dd \in Word(4)
  BY <1>3, <1>6 DEF Word
<1>8. \A k \in 1 .. 4 : /\ ff[k] = AddByte[ff[k - 1]][cc[k]]
                        /\ gg[k] = AddByte[gg[k - 1]][dd[k]]
  BY <1>1, <1>2, <1>6
<1>9. ff[0] = gg[0] /\ ff[4] = gg[4]
  BY <1>3, <1>4, <1>5
<1>10. cc = dd
  <2> HIDE DEF ff, gg, cc, dd
  <2> QED
    BY <1>7, <1>8, <1>9, FourBytes
<1>11. ASSUME NEW k \in 1 .. n PROVE c[k] = d[k]
  <2>1. CASE k \in i + 1 .. i + 4
    <3>1. k - i \in 1 .. 4 /\ i + (k - i) = k
      BY <1>3, <2>1
    <3>2. cc[k - i] = c[k] /\ dd[k - i] = d[k]
      BY <3>1
    <3> QED
      BY <1>10, <3>2
  <2> QED
    BY <2>1
<1> QED
  BY <1>11 DEF Word

(* Different registers are different CRCs.                                 *)
LEMMA CrcTellsRegisters ==
    ASSUME NEW n \in Nat, NEW c \in Word(n), NEW d \in Word(n),
           CalculateCRC(c) = CalculateCRC(d)
    PROVE  RegisterAfter[c] = RegisterAfter[d]
<1> DEFINE x == RegisterAfter[c]
           y == RegisterAfter[d]
           nx == AllOnes \ x
           ny == AllOnes \ y
<1>1. x \in Register /\ y \in Register
  <2>1. \E f \in [0 .. n -> Register] : RegisterAfter[c] = f[n]
    BY RegisterSteps
  <2>2. \E f \in [0 .. n -> Register] : RegisterAfter[d] = f[n]
    BY RegisterSteps
  <2> QED
    BY <2>1, <2>2
<1>2. nx \in Register /\ ny \in Register
  BY DEF AllOnes, Register
<1>3. InMemory[nx] = InMemory[ny]
  BY DEF CalculateCRC
<1> HIDE DEF x, y
<1>4. ASSUME NEW b \in 0 .. 31 PROVE b \in nx <=> b \in ny
  <2>1. PICK k \in 1 .. 4, a \in 0 .. 7 : b = a + 8 * (k - 1)
    <3>1. CASE b < 8
      <4>1. 1 \in 1 .. 4 /\ b \in 0 .. 7 /\ b = b + 8 * (1 - 1)
        BY <3>1
      <4> QED
        BY <4>1
    <3>2. CASE 8 <= b /\ b < 16
      <4>1. 2 \in 1 .. 4 /\ b - 8 \in 0 .. 7 /\ b = (b - 8) + 8 * (2 - 1)
        BY <3>2
      <4> QED
        BY <4>1
    <3>3. CASE 16 <= b /\ b < 24
      <4>1. 3 \in 1 .. 4 /\ b - 16 \in 0 .. 7 /\ b = (b - 16) + 8 * (3 - 1)
        BY <3>3
      <4> QED
        BY <4>1
    <3>4. CASE 24 <= b
      <4>1. 4 \in 1 .. 4 /\ b - 24 \in 0 .. 7 /\ b = (b - 24) + 8 * (4 - 1)
        BY <3>4
      <4> QED
        BY <4>1
    <3> QED
      BY <3>1, <3>2, <3>3, <3>4
  <2> HIDE DEF nx, ny
  <2>2. InMemory[nx][k] = {e \in 0 .. 7 : e + 8 * (k - 1) \in nx}
    BY <1>2 DEF InMemory
  <2>3. InMemory[ny][k] = {e \in 0 .. 7 : e + 8 * (k - 1) \in ny}
    BY <1>2 DEF InMemory
  <2>4. b \in nx <=> a \in InMemory[nx][k]
    BY <2>1, <2>2
  <2>5. b \in ny <=> a \in InMemory[ny][k]
    BY <2>1, <2>3
  <2> QED
    BY <1>3, <2>4, <2>5
<1>5. \A b \in 0 .. 31 : b \in x <=> b \in y
  BY <1>4 DEF AllOnes
<1>6. x \subseteq 0 .. 31 /\ y \subseteq 0 .. 31
  BY <1>1 DEF Register
<1>7. x = y
  BY <1>5, <1>6
<1> QED
  BY <1>7 DEF x, y

(* Words that have the same bytes are the same.                            *)
LEMMA SameWord ==
    ASSUME NEW n, NEW v \in Word(n), NEW w \in Word(n), \A k \in 1 .. n : v[k] = w[k]
    PROVE  v = w
<1>1. v = [k \in 1 .. n |-> v[k]] /\ w = [k \in 1 .. n |-> w[k]]
  BY DEF Word
<1> QED
  BY <1>1

(* A part of a datagram is a word.                                         *)
LEMMA PartOfWord ==
    ASSUME NEW n \in Nat, NEW w \in Word(n), NEW k \in Nat, NEW m \in Nat, k + m <= n
    PROVE  /\ SubSeq(w, k + 1, k + m) \in Word(m)
           /\ \A i \in 1 .. m : SubSeq(w, k + 1, k + m)[i] = w[k + i]
<1> DEFINE v == [i \in 1 .. m |-> w[k + i]]
<1>1. v \in Word(m)
  BY DEF Word
<1>2. \A i \in 1 .. m : w[k + i] = v[i]
  OBVIOUS
<1> HIDE DEF v
<1>3. SubSeq(w, k + 1, k + m) = v
  BY <1>1, <1>2, FoundAt, Zenon
<1> QED
  BY <1>1, <1>2, <1>3

(***************************************************************************)
(* What deserialize reads from a datagram, serialize would write again: no *)
(* byte of it is in no field.                                              *)
(***************************************************************************)
LEMMA FieldsOfWire ==
    ASSUME NEW w \in Word(WireSize)
    PROVE  /\ Fields(w) \in PacketFields
           /\ \A i \in 1 .. ContentSize : Content(Fields(w))[i] = w[i]
           /\ \A i \in 1 .. 4 : ByteSwapped[Fields(w).errorCorrectionCode][i] = w[ContentSize + i]
<1> DEFINE q == Fields(w)
<1>1. /\ ContentSize = 18 + DataSize /\ WireSize = 22 + DataSize /\ HeaderSize = 18
      /\ DataSize \in Nat /\ WireSize \in Nat /\ ContentSize \in Nat
  BY PacketAssumption DEF ContentSize, HeaderSize, WireSize
<1>2. ASSUME NEW k \in Nat, NEW m \in Nat, k + m <= WireSize
      PROVE  /\ ByteSwapped[SubSeq(w, k + 1, k + m)] \in Word(m)
             /\ ByteSwapped[ByteSwapped[SubSeq(w, k + 1, k + m)]] \in Word(m)
             /\ \A i \in 1 .. m : ByteSwapped[ByteSwapped[SubSeq(w, k + 1, k + m)]][i] = w[k + i]
  <2> DEFINE v == SubSeq(w, k + 1, k + m)
  <2>1. v \in Word(m) /\ \A i \in 1 .. m : v[i] = w[k + i]
    BY <1>1, <1>2, PartOfWord
  <2> HIDE DEF v
  <2>2. ByteSwapped[v] \in Word(m) /\ ByteSwapped[ByteSwapped[v]] = v
    BY <2>1, SwappedIs, SwappedTwice
  <2> QED
    BY <2>1, <2>2 DEF v
<1>3. /\ q.version = w[1] /\ q.type = w[14]
      /\ q.sAddress = ByteSwapped[SubSeq(w, 1 + 1, 1 + 4)]
      /\ q.sPort = ByteSwapped[SubSeq(w, 5 + 1, 5 + 2)]
      /\ q.tAddress = ByteSwapped[SubSeq(w, 7 + 1, 7 + 4)]
      /\ q.tPort = ByteSwapped[SubSeq(w, 11 + 1, 11 + 2)]
      /\ q.fragmentNumber = ByteSwapped[SubSeq(w, 14 + 1, 14 + 2)]
      /\ q.fragmentCount = ByteSwapped[SubSeq(w, 16 + 1, 16 + 2)]
      /\ q.data = SubSeq(w, 18 + 1, 18 + DataSize)
      /\ q.errorCorrectionCode = ByteSwapped[SubSeq(w, ContentSize + 1, ContentSize + 4)]
  <2>1. /\ 1 + 1 = 2 /\ 1 + 4 = 5 /\ 5 + 1 = 6 /\ 5 + 2 = 7 /\ 7 + 1 = 8
        /\ 7 + 4 = 11 /\ 11 + 1 = 12 /\ 11 + 2 = 13 /\ 14 + 1 = 15
        /\ 14 + 2 = 16 /\ 16 + 1 = 17 /\ 16 + 2 = 18
        /\ ContentSize + 4 = WireSize /\ 18 + DataSize = ContentSize
    BY <1>1
  <2> QED
    BY <1>1, <2>1 DEF Fields
<1>4. w[1] \in Byte /\ w[14] \in Byte
  BY <1>1 DEF Word
<1> HIDE DEF q
<1> DEFINE IsPart(field, k, m) == /\ field \in Word(m)
                                  /\ \A i \in 1 .. m : ByteSwapped[field][i] = w[k + i]
<1>5. /\ IsPart(q.sAddress, 1, 4) /\ IsPart(q.sPort, 5, 2)
      /\ IsPart(q.tAddress, 7, 4) /\ IsPart(q.tPort, 11, 2)
      /\ IsPart(q.fragmentNumber, 14, 2) /\ IsPart(q.fragmentCount, 16, 2)
      /\ IsPart(q.errorCorrectionCode, ContentSize, 4)
  <2>1. ASSUME NEW k \in Nat, NEW m \in Nat, k + m <= WireSize
        PROVE  IsPart(ByteSwapped[SubSeq(w, k + 1, k + m)], k, m)
    BY <1>2, <2>1, Zenon
  <2> HIDE DEF IsPart
  <2>2. IsPart(q.sAddress, 1, 4)
    <3>1. 1 \in Nat /\ 4 \in Nat /\ 1 + 4 <= WireSize
      BY <1>1
    <3>2. IsPart(ByteSwapped[SubSeq(w, 1 + 1, 1 + 4)], 1, 4)
      BY <2>1, <3>1, Zenon
    <3> QED
      BY <1>3, <3>2, Zenon
  <2>3. IsPart(q.sPort, 5, 2)
    <3>1. 5 \in Nat /\ 2 \in Nat /\ 5 + 2 <= WireSize
      BY <1>1
    <3>2. IsPart(ByteSwapped[SubSeq(w, 5 + 1, 5 + 2)], 5, 2)
      BY <2>1, <3>1, Zenon
    <3> QED
      BY <1>3, <3>2, Zenon
  <2>4. IsPart(q.tAddress, 7, 4)
    <3>1. 7 \in Nat /\ 4 \in Nat /\ 7 + 4 <= WireSize
      BY <1>1
    <3>2. IsPart(ByteSwapped[SubSeq(w, 7 + 1, 7 + 4)], 7, 4)
      BY <2>1, <3>1, Zenon
    <3> QED
      BY <1>3, <3>2, Zenon
  <2>5. IsPart(q.tPort, 11, 2)
    <3>1. 11 \in Nat /\ 2 \in Nat /\ 11 + 2 <= WireSize
      BY <1>1
    <3>2. IsPart(ByteSwapped[SubSeq(w, 11 + 1, 11 + 2)], 11, 2)
      BY <2>1, <3>1, Zenon
    <3> QED
      BY <1>3, <3>2, Zenon
  <2>6. IsPart(q.fragmentNumber, 14, 2)
    <3>1. 14 \in Nat /\ 2 \in Nat /\ 14 + 2 <= WireSize
      BY <1>1
    <3>2. IsPart(ByteSwapped[SubSeq(w, 14 + 1, 14 + 2)], 14, 2)
      BY <2>1, <3>1, Zenon
    <3> QED
      BY <1>3, <3>2, Zenon
  <2>7. IsPart(q.fragmentCount, 16, 2)
    <3>1. 16 \in Nat /\ 2 \in Nat /\ 16 + 2 <= WireSize
      BY <1>1
    <3>2. IsPart(ByteSwapped[SubSeq(w, 16 + 1, 16 + 2)], 16, 2)
      BY <2>1, <3>1, Zenon
    <3> QED
      BY <1>3, <3>2, Zenon
  <2>8. IsPart(q.errorCorrectionCode, ContentSize, 4)
    <3>1. ContentSize \in Nat /\ 4 \in Nat /\ ContentSize + 4 <= WireSize
      BY <1>1
    <3>2. IsPart(ByteSwapped[SubSeq(w, ContentSize + 1, ContentSize + 4)], ContentSize, 4)
      BY <2>1, <3>1, Zenon
    <3> QED
      BY <1>3, <3>2, Zenon
  <2> QED
    BY <2>2, <2>3, <2>4, <2>5, <2>6, <2>7, <2>8
<1>6. q.data \in Word(DataSize) /\ \A i \in 1 .. DataSize : q.data[i] = w[18 + i]
  <2>1. ASSUME NEW k \in Nat, NEW m \in Nat, k + m <= WireSize
        PROVE  /\ SubSeq(w, k + 1, k + m) \in Word(m)
               /\ \A i \in 1 .. m : SubSeq(w, k + 1, k + m)[i] = w[k + i]
    BY <1>1, <2>1, PartOfWord
  <2>2. /\ SubSeq(w, 18 + 1, 18 + DataSize) \in Word(DataSize)
        /\ \A i \in 1 .. DataSize : SubSeq(w, 18 + 1, 18 + DataSize)[i] = w[18 + i]
    <3>1. 18 \in Nat /\ DataSize \in Nat /\ 18 + DataSize <= WireSize
      BY <1>1
    <3> QED
      BY <2>1, <3>1, Zenon
  <2> QED
    BY <1>3, <2>2, Zenon
<1>7. /\ \A i \in 1 .. 4 : ByteSwapped[q.sAddress][i] = w[1 + i]
      /\ \A i \in 1 .. 2 : ByteSwapped[q.sPort][i] = w[5 + i]
      /\ \A i \in 1 .. 4 : ByteSwapped[q.tAddress][i] = w[7 + i]
      /\ \A i \in 1 .. 2 : ByteSwapped[q.tPort][i] = w[11 + i]
      /\ \A i \in 1 .. 2 : ByteSwapped[q.fragmentNumber][i] = w[14 + i]
      /\ \A i \in 1 .. 2 : ByteSwapped[q.fragmentCount][i] = w[16 + i]
      /\ \A i \in 1 .. 4 : ByteSwapped[q.errorCorrectionCode][i] = w[ContentSize + i]
  BY <1>5, Zenon
<1>8. q \in PacketFields
  <2>1. q = [version |-> q.version, sAddress |-> q.sAddress,
             sPort |-> q.sPort, tAddress |-> q.tAddress, tPort |-> q.tPort,
             type |-> q.type, fragmentNumber |-> q.fragmentNumber,
             fragmentCount |-> q.fragmentCount, data |-> q.data,
             errorCorrectionCode |-> q.errorCorrectionCode]
    BY DEF q, Fields
  <2>2. /\ q.version \in Byte /\ q.type \in Byte
    BY <1>3, <1>4
  <2>3. /\ q.sAddress \in Word(4) /\ q.sPort \in Word(2)
        /\ q.tAddress \in Word(4) /\ q.tPort \in Word(2)
        /\ q.fragmentNumber \in Word(2) /\ q.fragmentCount \in Word(2)
        /\ q.errorCorrectionCode \in Word(4)
    BY <1>5
  <2> QED
    BY <1>6, <2>1, <2>2, <2>3 DEF PacketFields
<1>9. ASSUME NEW i \in 1 .. ContentSize PROVE Content(q)[i] = w[i]
  <2>1. /\ Content(q)[1] = w[1]
        /\ \A k \in 1 .. 4 : Content(q)[1 + k] = w[1 + k]
        /\ \A k \in 1 .. 2 : Content(q)[5 + k] = w[5 + k]
        /\ \A k \in 1 .. 4 : Content(q)[7 + k] = w[7 + k]
        /\ \A k \in 1 .. 2 : Content(q)[11 + k] = w[11 + k]
        /\ Content(q)[14] = w[14]
        /\ \A k \in 1 .. 2 : Content(q)[14 + k] = w[14 + k]
        /\ \A k \in 1 .. 2 : Content(q)[16 + k] = w[16 + k]
        /\ \A k \in 1 .. DataSize : Content(q)[18 + k] = w[18 + k]
    <3>1. /\ Content(q)[1] = q.version
          /\ \A k \in 1 .. 4 : Content(q)[1 + k] = ByteSwapped[q.sAddress][k]
          /\ \A k \in 1 .. 2 : Content(q)[5 + k] = ByteSwapped[q.sPort][k]
          /\ \A k \in 1 .. 4 : Content(q)[7 + k] = ByteSwapped[q.tAddress][k]
          /\ \A k \in 1 .. 2 : Content(q)[11 + k] = ByteSwapped[q.tPort][k]
          /\ Content(q)[14] = q.type
          /\ \A k \in 1 .. 2 : Content(q)[14 + k] = ByteSwapped[q.fragmentNumber][k]
          /\ \A k \in 1 .. 2 : Content(q)[16 + k] = ByteSwapped[q.fragmentCount][k]
          /\ \A k \in 1 .. DataSize : Content(q)[18 + k] = q.data[k]
      BY <1>8, ContentLayout, Zenon
    <3>2. Content(q)[1] = w[1] /\ Content(q)[14] = w[14]
      BY <1>3, <3>1, Zenon
    <3>3. \A k \in 1 .. 4 : Content(q)[1 + k] = w[1 + k]
      BY <1>7, <3>1, Zenon
    <3>4. \A k \in 1 .. 2 : Content(q)[5 + k] = w[5 + k]
      BY <1>7, <3>1, Zenon
    <3>5. \A k \in 1 .. 4 : Content(q)[7 + k] = w[7 + k]
      BY <1>7, <3>1, Zenon
    <3>6. \A k \in 1 .. 2 : Content(q)[11 + k] = w[11 + k]
      BY <1>7, <3>1, Zenon
    <3>7. \A k \in 1 .. 2 : Content(q)[14 + k] = w[14 + k]
      BY <1>7, <3>1, Zenon
    <3>8. \A k \in 1 .. 2 : Content(q)[16 + k] = w[16 + k]
      BY <1>7, <3>1, Zenon
    <3>9. \A k \in 1 .. DataSize : Content(q)[18 + k] = w[18 + k]
      BY <1>6, <3>1, Zenon
    <3> QED
      BY <3>2, <3>3, <3>4, <3>5, <3>6, <3>7, <3>8, <3>9
  <2>2. CASE i <= 5
    <3>1. i = 1 \/ (i - 1 \in 1 .. 4 /\ 1 + (i - 1) = i)
      BY <2>2
    <3> QED
      BY <2>1, <3>1
  <2>3. CASE i \in 6 .. 7
    <3>1. i - 5 \in 1 .. 2 /\ 5 + (i - 5) = i
      BY <2>3
    <3> QED
      BY <2>1, <3>1
  <2>4. CASE i \in 8 .. 11
    <3>1. i - 7 \in 1 .. 4 /\ 7 + (i - 7) = i
      BY <2>4
    <3> QED
      BY <2>1, <3>1
  <2>5. CASE i \in 12 .. 13
    <3>1. i - 11 \in 1 .. 2 /\ 11 + (i - 11) = i
      BY <2>5
    <3> QED
      BY <2>1, <3>1
  <2>6. CASE i = 14
    BY <2>1, <2>6
  <2>7. CASE i \in 15 .. 16
    <3>1. i - 14 \in 1 .. 2 /\ 14 + (i - 14) = i
      BY <2>7
    <3> QED
      BY <2>1, <3>1
  <2>8. CASE i \in 17 .. 18
    <3>1. i - 16 \in 1 .. 2 /\ 16 + (i - 16) = i
      BY <2>8
    <3> QED
      BY <2>1, <3>1
  <2>9. CASE 18 < i
    <3>1. i - 18 \in 1 .. DataSize /\ 18 + (i - 18) = i
      BY <1>1, <2>9
    <3> QED
      BY <2>1, <3>1
  <2> QED
    BY <1>1, <2>2, <2>3, <2>4, <2>5, <2>6, <2>7, <2>8, <2>9
<1> QED
  BY <1>7, <1>8, <1>9 DEF q

(***************************************************************************)
(* ShortBurstsAreFound: deserialize rejects a datagram that differs from   *)
(* the one that was sent in up to four neighbouring bytes of its content,  *)
(* or in the CRC alone, whatever the bits that changed there.              *)
(***************************************************************************)
DiffersShortly(s, w) ==
    \/ \E i \in 0 .. ContentSize - 4 : SameBut4(w, s, WireSize, i)
    \/ \A k \in 1 .. ContentSize : w[k] = s[k]

THEOREM ShortBurstsAreFound ==
    ASSUME NEW p \in PacketFields, NEW w \in Word(WireSize), w # Serialize(p),
           DiffersShortly(Serialize(p), w)
    PROVE  ~VerifyCRC(Fields(w))
<1> DEFINE s == Serialize(p)
           c == Content(p)
           d == Content(Fields(w))
           e == ByteSwapped[CalculateCRC(c)]
           g == ByteSwapped[Fields(w).errorCorrectionCode]
<1>1. /\ ContentSize \in Nat /\ WireSize = ContentSize + 4
  BY PacketAssumption DEF ContentSize, HeaderSize, WireSize
<1>2. /\ s \in Word(WireSize)
      /\ \A i \in 1 .. ContentSize : s[i] = c[i]
      /\ \A i \in 1 .. 4 : s[ContentSize + i] = e[i]
  BY SerializeType
<1>3. /\ Fields(w) \in PacketFields
      /\ \A i \in 1 .. ContentSize : d[i] = w[i]
      /\ \A i \in 1 .. 4 : g[i] = w[ContentSize + i]
  BY FieldsOfWire
<1>4. /\ c \in Word(ContentSize) /\ d \in Word(ContentSize)
  BY <1>3, ContentLayout
<1>5. Fields(w).errorCorrectionCode \in Word(4)
  BY <1>3 DEF PacketFields
<1>6. e \in Word(4) /\ g \in Word(4) /\ ByteSwapped[e] = CalculateCRC(c)
        /\ ByteSwapped[g] = Fields(w).errorCorrectionCode
  <2>1. CalculateCRC(c) \in Word(4) /\ 4 \in Nat
    BY CrcType
  <2> QED
    BY <1>5, <2>1, SwappedIs, SwappedTwice
<1>7. SUFFICES ASSUME CalculateCRC(d) = ByteSwapped[g] PROVE w = s
  BY <1>6 DEF VerifyCRC
<1> HIDE DEF s, c, d, e, g
<1>8. ASSUME c = d
      PROVE  w = s
  <2>1. ByteSwapped[ByteSwapped[g]] = ByteSwapped[ByteSwapped[e]]
    BY <1>6, <1>7, <1>8
  <2>2. g = e
    <3>1. 4 \in Nat
      OBVIOUS
    <3> QED
      BY <1>6, <2>1, <3>1, SwappedTwice
  <2>3. ASSUME NEW k \in 1 .. WireSize PROVE w[k] = s[k]
    <3>1. CASE k <= ContentSize
      <4>1. k \in 1 .. ContentSize
        BY <1>1, <3>1
      <4> QED
        BY <1>2, <1>3, <1>8, <4>1
    <3>2. CASE ~(k <= ContentSize)
      <4>1. k - ContentSize \in 1 .. 4 /\ ContentSize + (k - ContentSize) = k
        BY <1>1, <3>2
      <4>2. \A i \in 1 .. 4 : s[ContentSize + i] = w[ContentSize + i]
        BY <1>2, <1>3, <2>2
      <4> QED
        BY <4>1, <4>2
    <3> QED
      BY <3>1, <3>2
  <2> QED
    BY <1>2, <2>3, SameWord
<1>9. CASE \A k \in 1 .. ContentSize : w[k] = s[k]
  <2>1. \A k \in 1 .. ContentSize : c[k] = d[k]
    BY <1>2, <1>3, <1>9
  <2>2. c = d
    BY <1>4, <2>1, SameWord
  <2> QED
    BY <1>8, <2>2
<1>10. ASSUME NEW i \in 0 .. ContentSize - 4, SameBut4(w, s, WireSize, i)
       PROVE  w = s
  <2>1. \A k \in 1 .. 4 : ContentSize + k \in 1 .. WireSize
                          /\ ContentSize + k \notin i + 1 .. i + 4
    BY <1>1
  <2>2. \A k \in 1 .. 4 : e[k] = g[k]
    BY <1>2, <1>3, <1>10, <2>1 DEF SameBut4
  <2>3. e = g
    BY <1>6, <2>2 DEF Word
  <2>4. CalculateCRC(c) = CalculateCRC(d)
    BY <1>6, <1>7, <2>3
  <2>5. RegisterAfter[c] = RegisterAfter[d]
    BY <1>1, <1>4, <2>4, CrcTellsRegisters
  <2>6. ASSUME NEW k \in 1 .. ContentSize, k \notin i + 1 .. i + 4
        PROVE  c[k] = d[k]
    <3>1. k \in 1 .. WireSize
      BY <1>1
    <3> QED
      BY <1>2, <1>3, <1>10, <2>6, <3>1 DEF SameBut4
  <2>7. c = d
    <3> DEFINE n == ContentSize
    <3>1. n \in Nat /\ c \in Word(n) /\ d \in Word(n) /\ i \in 0 .. n - 4
      BY <1>1, <1>4
    <3>2. SameBut4(c, d, n, i)
      BY <2>6 DEF SameBut4
    <3> HIDE DEF n
    <3> QED
      BY <2>5, <3>1, <3>2, ShortChange
  <2> QED
    BY <1>8, <2>7
<1> QED
  <2>1. DiffersShortly(s, w)
    BY DEF s
  <2> QED
    BY <1>9, <1>10, <2>1 DEF DiffersShortly
=============================================================================
