------------------------ MODULE PythonTransferProofs ------------------------
(***************************************************************************)
(* What is proved of PythonTransfer, for every set of files and of         *)
(* satellites, every way the peers know each other and every number of     *)
(* chunks, tries, failures and hops.                                       *)
(***************************************************************************)
EXTENDS PythonTransfer, FiniteSetTheorems, SequenceTheorems, TLAPS

-----------------------------------------------------------------------------
(* Sequences that hold nothing twice.                                      *)

Distinct(s) == \A i, j \in DOMAIN s : s[i] = s[j] => i = j

(* Storing a chunk under its number keeps the numbers distinct.            *)
LEMMA WithChunkProperties ==
    ASSUME NEW n \in Nat, NEW chunks \in Seq(1 .. n), Distinct(chunks),
           NEW c \in 1 .. n
    PROVE  /\ WithChunk(chunks, c) \in Seq(1 .. n)
           /\ Distinct(WithChunk(chunks, c))
<1> DEFINE len == Len(chunks)
           more == Append(chunks, c)
<1>1. /\ len \in Nat /\ DOMAIN chunks = 1 .. len
      /\ \A i \in 1 .. len : chunks[i] \in 1 .. n
  BY LenProperties, ElementOfSeq
<1>2. CASE Contains(chunks, c)
  BY <1>2 DEF WithChunk
<1>3. CASE ~Contains(chunks, c)
  <2>1. /\ more \in Seq(1 .. n) /\ DOMAIN more = 1 .. (len + 1)
        /\ \A i \in 1 .. len : more[i] = chunks[i]
        /\ more[len + 1] = c
    BY AppendProperties, LenProperties
  <2>2. \A i \in 1 .. len : chunks[i] # c
    BY <1>3 DEF Contains
  <2>3. Distinct(more)
    <3> HIDE DEF more
    <3>1. \A i \in 1 .. (len + 1) : i \in 1 .. len \/ i = len + 1
      BY <1>1
    <3> QED
      BY <1>1, <2>1, <2>2, <3>1 DEF Distinct
  <2> QED
    BY <1>3, <2>1, <2>3 DEF WithChunk
<1> QED
  BY <1>2, <1>3

(* As many distinct numbers of 1 .. n as there are: every one is there.    *)
LEMMA AllNumbersContained ==
    ASSUME NEW n \in Nat, NEW chunks \in Seq(1 .. n), Distinct(chunks),
           Len(chunks) = n
    PROVE  \A i \in 1 .. n : Contains(chunks, i)
<1>1. chunks \in [1 .. n -> 1 .. n]
  BY LenProperties
<1>2. chunks \in Injection(1 .. n, 1 .. n)
  BY <1>1 DEF Injection, IsInjective, Distinct
<1>3. IsFiniteSet(1 .. n)
  BY FS_Interval
<1>4. chunks \in Surjection(1 .. n, 1 .. n)
  BY <1>2, <1>3, FS_Injection
<1> QED
  BY <1>4 DEF Surjection, Contains
-----------------------------------------------------------------------------
(* The inductive invariant.                                                *)

(* Every copy has come some way.                                           *)
PathInv == \A c \in copies : c.path # <<>>

(* received_chunks has the numbers of the file, each at most once.         *)
ReceivingInv ==
    \A f \in File : /\ receiving[f] \in Seq(1 .. Chunks[f])
                    /\ Distinct(receiving[f])

DomainsInv == /\ DOMAIN receiving = File
              /\ DOMAIN saved = File

IInv == TypeOK /\ PathInv /\ ReceivingInv /\ DomainsInv /\ SavedWhole

LEMMA InitInv == Init => IInv
<1> SUFFICES ASSUME Init PROVE IInv
  OBVIOUS
<1> USE DEF Init
<1>1. /\ PathInv /\ DomainsInv /\ SavedWhole
  BY DEF PathInv, DomainsInv, SavedWhole
<1>2. ReceivingInv
  BY EmptySeq DEF ReceivingInv, Distinct
<1>3. TypeOK
  <2>1. sending \in [File -> [chunk : Nat \ {0}, retries : 0 .. MaxRetries - 1,
                              satellite : Satellite]]
    BY TransferAssumption
  <2>2. \A f \in File : Range(receiving[f]) = {}
    BY DEF Range
  <2> QED
    BY <2>1, <2>2, TransferAssumption DEF TypeOK
<1> QED
  BY <1>1, <1>2, <1>3 DEF IInv

(* The packet that carries a chunk, and the state after the chunk.         *)
LEMMA SentType ==
    ASSUME IInv, NEW f \in File, IsSending(f)
    PROVE  /\ Sent(f) \in Copy
           /\ Sent(f).chunk \in 1 .. Chunks[f]
           /\ Sent(f).file = f
           /\ Sent(f).path # <<>>
<1>1. /\ sending[f].chunk \in Nat \ {0} /\ sending[f].chunk <= Chunks[f]
      /\ sending[f].retries \in 0 .. MaxRetries - 1
      /\ sending[f].satellite \in Satellite
      /\ Chunks[f] \in Nat
  BY TransferAssumption DEF IInv, TypeOK, IsSending
<1>2. <<sending[f].satellite>> \in Seq(Satellite)
  BY <1>1
<1> QED
  BY <1>1, <1>2 DEF Sent, Copy

LEMMA NextChunkType ==
    ASSUME IInv, NEW f \in File, NextChunk(f)
    PROVE  sending' \in [File -> [chunk : Nat \ {0}, retries : 0 .. MaxRetries - 1,
                                  satellite : Satellite]]
<1>1. MaxRetries \in Nat \ {0}
  BY TransferAssumption
<1>2. 0 \in 0 .. MaxRetries - 1
  BY <1>1
<1>3. /\ sending[f] \in [chunk : Nat \ {0}, retries : 0 .. MaxRetries - 1,
                        satellite : Satellite]
      /\ sending[f].chunk + 1 \in Nat \ {0}
  BY DEF IInv, TypeOK
<1>4. [sending[f] EXCEPT !.chunk = @ + 1, !.retries = 0]
        \in [chunk : Nat \ {0}, retries : 0 .. MaxRetries - 1, satellite : Satellite]
  BY <1>2, <1>3
<1>5. sending' = [sending EXCEPT ![f] = [sending[f] EXCEPT !.chunk = @ + 1, !.retries = 0]]
  BY <1>3 DEF NextChunk, IInv, TypeOK
<1> QED
  BY <1>4, <1>5 DEF IInv, TypeOK

(* A failure leaves the bound on failures intact.                          *)
LEMMA FailsType ==
    ASSUME IInv, Fails
    PROVE  failures' \in 0 .. MaxFailures
BY TransferAssumption DEF IInv, TypeOK, Fails

(* What a step of a satellite or of the sender owes the invariant.         *)
LEMMA PacketsMoved ==
    ASSUME IInv, UNCHANGED <<receiving, saved>>,
           sending' \in [File -> [chunk : Nat \ {0}, retries : 0 .. MaxRetries - 1,
                                  satellite : Satellite]],
           failures' \in 0 .. MaxFailures,
           copies' \cup arrived' \subseteq Copy,
           \A c \in copies' \cup arrived' : c.chunk \in 1 .. Chunks[c.file],
           \A c \in copies' : c.path # <<>>
    PROVE  IInv'
BY DEF IInv, TypeOK, PathInv, ReceivingInv, DomainsInv, SavedWhole

LEMMA Step ==
    ASSUME IInv, [Next]_vars
    PROVE  IInv'
<1>0. /\ sending \in [File -> [chunk : Nat \ {0}, retries : 0 .. MaxRetries - 1,
                               satellite : Satellite]]
      /\ failures \in 0 .. MaxFailures
      /\ copies \cup arrived \subseteq Copy
      /\ \A c \in copies \cup arrived : c.chunk \in 1 .. Chunks[c.file]
      /\ \A c \in copies : c.path # <<>>
  BY DEF IInv, TypeOK, PathInv
<1>1. ASSUME NEW f \in File, SendChunk(f) PROVE IInv'
  BY <1>0, <1>1, SentType, NextChunkType, PacketsMoved DEF SendChunk
<1>2. ASSUME NEW f \in File, SendFails(f) PROVE IInv'
  <2>1. sending' \in [File -> [chunk : Nat \ {0}, retries : 0 .. MaxRetries - 1,
                               satellite : Satellite]]
    <3>1. CASE LastTry(f)
      BY <1>2, <3>1, NextChunkType DEF SendFails
    <3>2. CASE ~LastTry(f)
      <4>1. /\ sending[f].retries \in 0 .. MaxRetries - 1
            /\ sending[f].retries + 1 # MaxRetries
        BY <1>0, <3>2 DEF LastTry
      <4>2. sending[f].retries + 1 \in 0 .. MaxRetries - 1
        <5>1. MaxRetries \in Nat
          BY TransferAssumption
        <5> QED
          BY <4>1, <5>1
      <4> QED
        BY <1>0, <1>2, <3>2, <4>2 DEF SendFails
    <3> QED
      BY <3>1, <3>2
  <2>2. copies' \subseteq copies \cup {Sent(f)} /\ IsSending(f)
    BY <1>2 DEF SendFails
  <2>3. failures' \in 0 .. MaxFailures
    BY <1>2, FailsType DEF SendFails
  <2> QED
    BY <1>0, <1>2, <2>1, <2>2, <2>3, SentType, PacketsMoved DEF SendFails
<1>3. ASSUME NEW c \in copies, ForwardToGround(c) PROVE IInv'
  <2>1. failures' \in 0 .. MaxFailures
    BY <1>0, <1>3, FailsType DEF ForwardToGround
  <2> QED
    BY <1>0, <1>3, <2>1, PacketsMoved DEF ForwardToGround
<1>4. ASSUME NEW c \in copies, ForwardToPeer(c) PROVE IInv'
  <2> DEFINE peers == Peers[Last(c.path)]
             ahead == [c EXCEPT !.done = @ + 1]
             there == [c EXCEPT !.path = Append(@, peers[c.done + 1]), !.done = 0]
  <2>1. /\ c \in Copy /\ c.path \in Seq(Satellite) /\ c.path # <<>>
        /\ c.done \in Nat
    BY <1>0 DEF Copy
  <2>2. /\ Last(c.path) \in Satellite
        /\ peers \in Seq(Satellite)
    BY <2>1, TransferAssumption, ElementOfSeq, EmptySeq, LenProperties DEF Last
  <2>3. peers[c.done + 1] \in Satellite
    <3>1. c.done < Len(peers)
      BY <1>4 DEF ForwardToPeer
    <3> HIDE DEF peers
    <3>2. c.done + 1 \in 1 .. Len(peers)
      BY <2>1, <2>2, <3>1, LenProperties
    <3> QED
      BY <2>2, <3>2, ElementOfSeq
  <2> HIDE DEF peers
  <2>4. /\ Append(c.path, peers[c.done + 1]) \in Seq(Satellite)
        /\ Append(c.path, peers[c.done + 1]) # <<>>
    BY <2>1, <2>3, AppendProperties
  <2>5. /\ ahead \in Copy /\ there \in Copy
        /\ ahead.chunk = c.chunk /\ ahead.file = c.file /\ ahead.path = c.path
        /\ there.chunk = c.chunk /\ there.file = c.file
        /\ there.path = Append(c.path, peers[c.done + 1])
    <3> DEFINE path == Append(c.path, peers[c.done + 1])
    <3>1. path \in Seq(Satellite)
      BY <2>4
    <3> HIDE DEF path
    <3>2. there = [c EXCEPT !.path = path, !.done = 0]
      BY DEF path
    <3>3. c.done + 1 \in Nat
      BY <2>1
    <3>4. /\ ahead \in Copy
          /\ ahead.chunk = c.chunk /\ ahead.file = c.file /\ ahead.path = c.path
      BY <2>1, <3>3 DEF Copy
    <3>5. /\ there \in Copy
          /\ there.chunk = c.chunk /\ there.file = c.file /\ there.path = path
      BY <2>1, <3>1, <3>2 DEF Copy
    <3> QED
      BY <3>4, <3>5 DEF path
  <2>6. /\ copies' \subseteq copies \cup {ahead, there}
        /\ UNCHANGED <<sending, arrived, receiving, saved>>
        /\ failures' \in 0 .. MaxFailures
    BY <1>0, <1>4, FailsType DEF ForwardToPeer, peers
  <2> HIDE DEF ahead, there
  <2>7. /\ \A d \in copies' \cup arrived' : d.chunk \in 1 .. Chunks[d.file]
        /\ \A d \in copies' : d.path # <<>>
        /\ copies' \cup arrived' \subseteq Copy
    BY <1>0, <2>4, <2>5, <2>6
  <2> QED
    BY <1>0, <2>6, <2>7, PacketsMoved
<1>5. ASSUME NEW c \in copies, EndForwarding(c) PROVE IInv'
  BY <1>0, <1>5, PacketsMoved DEF EndForwarding
<1>6. ASSUME NEW c \in arrived, HandleFileTransfer(c) PROVE IInv'
  <2> DEFINE f == c.file
             chunks == WithChunk(receiving[f], c.chunk)
  <2>1. /\ f \in File /\ c.chunk \in 1 .. Chunks[f] /\ Chunks[f] \in Nat
        /\ receiving[f] \in Seq(1 .. Chunks[f]) /\ Distinct(receiving[f])
    BY <1>0, TransferAssumption DEF Copy, IInv, ReceivingInv
  <2>2. /\ chunks \in Seq(1 .. Chunks[f]) /\ Distinct(chunks)
    BY <2>1, WithChunkProperties
  <2>3. /\ arrived' \subseteq arrived
        /\ UNCHANGED <<sending, copies, failures>>
    BY <1>6 DEF HandleFileTransfer
  <2>4. <<>> \in Seq(1 .. Chunks[f]) /\ Distinct(<<>>)
    BY EmptySeq DEF Distinct
  <2>5. ReceivingInv' /\ DOMAIN receiving' = File
    BY <1>6, <2>1, <2>2, <2>4 DEF HandleFileTransfer, IInv, ReceivingInv, DomainsInv
  <2>6. SavedWhole' /\ DOMAIN saved' = File
    <3>1. CASE IsComplete(f, chunks)
      <4>1. \A i \in 1 .. Chunks[f] : Contains(chunks, i)
        BY <2>1, <2>2, <3>1, AllNumbersContained DEF IsComplete
      <4>2. Joined(f, chunks) = [i \in 1 .. Chunks[f] |-> i]
        BY <4>1 DEF Joined
      <4>3. saved' = [saved EXCEPT ![f] = @ \cup {Joined(f, chunks)}]
        BY <1>6, <3>1 DEF HandleFileTransfer
      <4> QED
        BY <2>1, <4>2, <4>3 DEF IInv, SavedWhole, DomainsInv
    <3>2. CASE ~IsComplete(f, chunks)
      BY <1>6, <3>2 DEF HandleFileTransfer, IInv, SavedWhole, DomainsInv
    <3> QED
      BY <3>1, <3>2
  <2>7. TypeOK'
    <3>1. \A g \in File : Range(receiving'[g]) \subseteq 1 .. Chunks[g]
      <4> SUFFICES ASSUME NEW g \in File
                   PROVE  Range(receiving'[g]) \subseteq 1 .. Chunks[g]
        OBVIOUS
      <4>1. receiving'[g] \in Seq(1 .. Chunks[g])
        BY <2>5 DEF ReceivingInv
      <4>2. \A i \in DOMAIN receiving'[g] : receiving'[g][i] \in 1 .. Chunks[g]
        BY <4>1, ElementOfSeq, LenProperties
      <4> QED
        BY <4>2 DEF Range
    <3>2. \A g \in File : \A s \in saved'[g] : s \in Seq(Nat)
      <4> SUFFICES ASSUME NEW g \in File PROVE [i \in 1 .. Chunks[g] |-> i] \in Seq(Nat)
        BY <2>6 DEF SavedWhole
      <4>1. Chunks[g] \in Nat
        BY TransferAssumption
      <4> QED
        BY <4>1, SeqDef
    <3> QED
      BY <1>0, <2>3, <3>1, <3>2 DEF TypeOK
  <2> QED
    BY <1>0, <2>3, <2>5, <2>6, <2>7 DEF IInv, PathInv, DomainsInv
<1>7. CASE UNCHANGED vars
  BY <1>7 DEF vars, IInv, TypeOK, PathInv, ReceivingInv, DomainsInv, SavedWhole
<1> QED
  BY <1>1, <1>2, <1>3, <1>4, <1>5, <1>6, <1>7
     DEF Next, Send, Relay, Arrive, HandleConnection

LEMMA Inductive == Spec => []IInv
BY InitInv, Step, PTL DEF Spec

(***************************************************************************)
(* The variables of the prototype keep their types, and the target never   *)
(* holds a chunk number that the file does not have.                       *)
(***************************************************************************)
THEOREM TypeCorrect == Spec => []TypeOK
<1>1. IInv => TypeOK
  BY DEF IInv
<1> QED
  BY <1>1, Inductive, PTL

(***************************************************************************)
(* Whatever way the chunks take, how often they come and in which order, a *)
(* file that handle_file_transfer writes is the one that was sent; as many *)
(* chunks as total_chunks says are all of them, so that no number is ever  *)
(* missing when they are joined.                                           *)
(***************************************************************************)
THEOREM SavedIsWhole == Spec => []SavedWhole
<1>1. IInv => SavedWhole
  BY DEF IInv
<1> QED
  BY <1>1, Inductive, PTL
=============================================================================
