--------------------------- MODULE PythonTransfer ---------------------------
(***************************************************************************)
(* The Python prototype: a ground node cuts a file into chunks and sends   *)
(* each to its nearest satellite; a satellite passes it to the target if   *)
(* it knows the target and to all its peers if it does not; the target     *)
(* puts the file together.                                                 *)
(*                                                                         *)
(*  - Every packet has a TCP connection of its own, handled in a coroutine *)
(*    of its own.  A copy of a chunk is one such packet, told apart by the *)
(*    try that sent it and the way it has come.                            *)
(*  - A chunk's number stands for its bytes; file_id is unique; a packet   *)
(*    is smaller than 4096 bytes and is read whole.                        *)
(***************************************************************************)
EXTENDS Integers, SequencesExt

CONSTANTS
    File,          \* the files that are sent, each of at least one chunk
    Satellite,     \* the satellite nodes
    Target,        \* File -> the ground node it is sent to
    Satellites,    \* File -> the satellites of the node that sends it
    Chunks,        \* File -> total_chunks
    GroundNodes,   \* Satellite -> the ground nodes it was started with
    Peers,         \* Satellite -> sequence of its peers
    MaxRetries,    \* max_retries
    MaxFailures,   \* bound: how many connections fail
    MaxHops        \* bound: no copy goes on after so many satellites

ASSUME TransferAssumption ==
    /\ Satellites \in [File -> (SUBSET Satellite) \ {{}}]
    /\ Chunks \in [File -> Nat \ {0}]
    /\ Peers \in [Satellite -> Seq(Satellite)]
    /\ MaxRetries \in Nat \ {0}
    /\ MaxFailures \in Nat
    /\ MaxHops \in Nat

VARIABLES
    sending,    \* of each file: the chunk, the retries, the nearest satellite
    copies,     \* the chunks at satellites
    arrived,    \* the chunks at their target
    receiving,  \* received_chunks of each file, in the order of the dict
    saved,      \* the files written, each a sequence of chunks
    failures    \* how many connections have failed

vars == <<sending, copies, arrived, receiving, saved, failures>>

(* A coroutine's done counts the peers it has dealt with.                  *)
Copy == [file : File, chunk : Nat, try : 0 .. MaxRetries - 1,
         path : Seq(Satellite), done : Nat]

Init ==
    /\ \E nearest \in [File -> Satellite] :
          /\ \A f \in File : nearest[f] \in Satellites[f]
          /\ sending = [f \in File |->
                [chunk |-> 1, retries |-> 0, satellite |-> nearest[f]]]
    /\ copies = {}
    /\ arrived = {}
    /\ receiving = [f \in File |-> <<>>]
    /\ saved = [f \in File |-> {}]
    /\ failures = 0

Fails ==
    /\ failures < MaxFailures
    /\ failures' = failures + 1
-----------------------------------------------------------------------------
(* send_file_to_nearest_satellite: the nearest is chosen once, before the  *)
(* first chunk.                                                            *)

\* mutant: one chunk too many
IsSendingOneMore(f) == sending[f].chunk <= Chunks[f] + 1

IsSending(f) == sending[f].chunk <= Chunks[f]

Sent(f) ==
    [file |-> f, chunk |-> sending[f].chunk, try |-> sending[f].retries,
     path |-> <<sending[f].satellite>>, done |-> 0]

NextChunk(f) ==
    sending' = [sending EXCEPT ![f].chunk = @ + 1, ![f].retries = 0]

SendChunk(f) ==
    /\ IsSending(f)
    /\ copies' = copies \cup {Sent(f)}
    /\ NextChunk(f)
    /\ UNCHANGED <<arrived, receiving, saved, failures>>

\* mutant: a failure is not retried
FirstTry(f) == TRUE

LastTry(f) == sending[f].retries + 1 = MaxRetries

(* An exception, before or after the packet has left: the chunk is sent    *)
(* again, or left out after the last try.                                  *)
SendFails(f) ==
    /\ IsSending(f)
    /\ Fails
    /\ copies' \in {copies, copies \cup {Sent(f)}}
    /\ IF LastTry(f)
       THEN NextChunk(f)
       ELSE sending' = [sending EXCEPT ![f].retries = @ + 1]
    /\ UNCHANGED <<arrived, receiving, saved>>
-----------------------------------------------------------------------------
(* A satellite: handle_connection, forward_packet and forward_to_peers.    *)

\* mutant: a file transfer always goes to the peers
KnowsNobody(c) == FALSE

KnowsTarget(c) == Target[c.file] \in GroundNodes[Last(c.path)]

ForwardToGround(c) ==
    /\ KnowsTarget(c)
    /\ copies' = copies \ {c}
    /\ \/ arrived' = arrived \cup {c} /\ UNCHANGED failures
       \/ Fails /\ UNCHANGED arrived
    /\ UNCHANGED <<sending, receiving, saved>>

(* One peer after the other is awaited; one that fails is passed over.     *)
ForwardToPeer(c) ==
    LET peers == Peers[Last(c.path)]
        ahead == [c EXCEPT !.done = @ + 1]
        there == [c EXCEPT !.path = Append(@, peers[c.done + 1]), !.done = 0]
    IN  /\ ~KnowsTarget(c)
        /\ Len(c.path) < MaxHops
        /\ c.done < Len(peers)
        /\ \/ copies' = (copies \ {c}) \cup {ahead, there} /\ UNCHANGED failures
           \/ copies' = (copies \ {c}) \cup {ahead} /\ Fails
        /\ UNCHANGED <<sending, arrived, receiving, saved>>

EndForwarding(c) ==
    /\ ~KnowsTarget(c)
    /\ c.done = Len(Peers[Last(c.path)])
    /\ copies' = copies \ {c}
    /\ UNCHANGED <<sending, arrived, receiving, saved, failures>>

HandleConnection(c) ==
    ForwardToGround(c) \/ ForwardToPeer(c) \/ EndForwarding(c)
-----------------------------------------------------------------------------
(* The target: handle_file_transfer, which has no await.                   *)

WithChunk(chunks, c) == IF Contains(chunks, c) THEN chunks ELSE Append(chunks, c)

IsComplete(f, chunks) == Len(chunks) = Chunks[f]

\* mutant: received_chunks.values()
AsArrived(f, chunks) == chunks

(***************************************************************************)
(* The file's chunks in the order of their numbers, each looked up by its  *)
(* number; Missing is the KeyError of a number that is not there.          *)
(***************************************************************************)
Missing == 0
Joined(f, chunks) ==
    [i \in 1 .. Chunks[f] |-> IF Contains(chunks, i) THEN i ELSE Missing]

HandleFileTransfer(c) ==
    LET f == c.file
        chunks == WithChunk(receiving[f], c.chunk)
    IN  /\ arrived' = arrived \ {c}
        /\ \/ /\ IsComplete(f, chunks)
              /\ saved' = [saved EXCEPT ![f] = @ \cup {Joined(f, chunks)}]
              /\ receiving' = [receiving EXCEPT ![f] = <<>>]
           \/ /\ ~IsComplete(f, chunks)
              /\ receiving' = [receiving EXCEPT ![f] = chunks]
              /\ UNCHANGED saved
        /\ UNCHANGED <<sending, copies, failures>>
-----------------------------------------------------------------------------
Send == \E f \in File : SendChunk(f) \/ SendFails(f)
Relay == \E c \in copies : HandleConnection(c)
Arrive == \E c \in arrived : HandleFileTransfer(c)

Next == Send \/ Relay \/ Arrive

(* No event loop stops while one of its coroutines can go on.              *)
Fairness == WF_vars(Send) /\ WF_vars(Relay) /\ WF_vars(Arrive)

Spec == Init /\ [][Next]_vars /\ Fairness
-----------------------------------------------------------------------------
(* Every variable keeps its type, and no node ever holds a chunk number    *)
(* the file does not have (receiving_files would never be complete).       *)
TypeOK ==
    /\ sending \in [File -> [chunk : Nat \ {0}, retries : 0 .. MaxRetries - 1,
                             satellite : Satellite]]
    /\ copies \cup arrived \subseteq Copy
    /\ \A c \in copies \cup arrived : c.chunk \in 1 .. Chunks[c.file]
    /\ \A f \in File : Range(receiving[f]) \subseteq 1 .. Chunks[f]
    /\ \A f \in File : \A s \in saved[f] : s \in Seq(Nat)
    /\ failures \in 0 .. MaxFailures

(* Whatever way the chunks take, however often and in whatever order they  *)
(* come, a file that handle_file_transfer writes is the file that was sent.*)
SavedWhole ==
    \A f \in File : \A s \in saved[f] : s = [i \in 1 .. Chunks[f] |-> i]

(* Satellites keep no record of what they have forwarded; where every      *)
(* satellite's peers know the target or it knows the target itself, the    *)
(* flood ends all the same, although the peers are each other's peers.     *)
Settles == <>[](copies = {} /\ arrived = {} /\ \A f \in File : ~IsSending(f))

(* Fewer failures than MaxRetries, and fewer than the ways through the     *)
(* satellites, lose no file: a send is retried, and forward_to_peers goes  *)
(* on with the next peer after a failure.                                  *)
Delivered == \A f \in File : <>(saved[f] # {})
=============================================================================
