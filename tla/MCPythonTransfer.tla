-------------------------- MODULE MCPythonTransfer --------------------------
(***************************************************************************)
(* A ground node sends another a file.  The three satellites are all each  *)
(* other's peers; s1, the only one the sender has, does not know the       *)
(* target, s2 and s3 do, so that every chunk goes two ways.                *)
(***************************************************************************)
EXTENDS PythonTransfer

CONSTANTS f1, s1, s2, s3, g1

MCTarget == f1 :> g1
MCSatellites == f1 :> {s1}
MCChunks == f1 :> 2
MCGroundNodes == s1 :> {} @@ s2 :> {g1} @@ s3 :> {g1}
MCPeers == s1 :> <<s2, s3>> @@ s2 :> <<s1, s3>> @@ s3 :> <<s1, s2>>
=============================================================================
