--------------------------- MODULE MCFileTransfer ---------------------------
(***************************************************************************)
(* Instances of FileTransfer for TLC: a ground station a sends to c and to *)
(* b, a satellite b relays and sends to c.                                 *)
(***************************************************************************)
EXTENDS FileTransfer

CONSTANTS a, b, c, t1, t2, t3

From == [t \in Transfer |-> IF t = t3 THEN b ELSE a]
To == [t \in Transfer |-> IF t = t2 THEN b ELSE c]
Sizes == [t \in Transfer |-> IF t = t2 THEN 5 ELSE 3]
EqualSizes == [t \in Transfer |-> 4]
OwnPrefix == [s \in Node |-> {s}]
=============================================================================
