---------------------------- MODULE FileDelivery ----------------------------
(***************************************************************************)
(* What the "file" command promises: one file after another travels from a *)
(* source and is then found, whole, in the file final_<source> of the      *)
(* receiving host.  While that file is being written it holds nothing that *)
(* a reader can rely on.                                                   *)
(***************************************************************************)
EXTENDS Sequences, SequencesExt

CONSTANTS
    Source,      \* the nodes that send files
    Transfer,    \* the files they send
    SourceOf,    \* Transfer -> Source
    Content,     \* Transfer -> sequence
    NoTransfer,  \* no file was sent yet
    Partial      \* a file that is being written

VARIABLES
    current,     \* the file each source has sent last
    phase,       \* what has become of it
    inbox        \* final_<source>

vars == <<current, phase, inbox>>

Init ==
    /\ current = [s \in Source |-> NoTransfer]
    /\ phase = [s \in Source |-> "settled"]
    /\ inbox = [s \in Source |-> <<>>]

Send(s, t) ==
    /\ phase[s] = "settled"
    /\ SourceOf[t] = s
    /\ current' = [current EXCEPT ![s] = t]
    /\ phase' = [phase EXCEPT ![s] = "travelling"]
    /\ UNCHANGED inbox

Arrive(s) ==
    /\ phase[s] = "travelling"
    /\ phase' = [phase EXCEPT ![s] = "arriving"]
    /\ inbox' = [inbox EXCEPT ![s] = Partial]
    /\ UNCHANGED current

(* The file that was sent, and perhaps something after it.                 *)
Deliver(s) ==
    /\ phase[s] = "arriving"
    /\ phase' = [phase EXCEPT ![s] = "settled"]
    /\ IsPrefix(Content[current[s]], inbox'[s])
    /\ inbox' = [inbox EXCEPT ![s] = inbox'[s]]
    /\ UNCHANGED current

Next == \E s \in Source : \/ \E t \in Transfer : Send(s, t)
                          \/ Arrive(s)
                          \/ Deliver(s)

(* Nothing arrives but what was sent, and whole.                           *)
Safety == Init /\ [][Next]_vars

(* A file that was sent arrives.                                           *)
Spec ==
    /\ Safety
    /\ \A s \in Source : (phase[s] = "travelling") ~> (phase[s] = "settled")
=============================================================================
