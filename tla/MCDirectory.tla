---------------------------- MODULE MCDirectory -----------------------------
(***************************************************************************)
(* Instances of Directory for TLC.                                         *)
(***************************************************************************)
EXTENDS Directory, TLC

CONSTANTS g, s, s2   \* a ground station, a satellite, the same one later

(* Every process has its own name and port, as in runme.sh.                *)
OwnName == [p \in Proc |->
                (g :> "ground1" @@ s :> "sat1" @@ s2 :> "sat2")[p]]
OwnAddr == [p \in Proc |->
                (g :> "33101" @@ s :> "33001" @@ s2 :> "33002")[p]]

(* The user starts the satellite again, or twice, with the same arguments. *)
SameName == [p \in Proc |->
                (g :> "ground1" @@ s :> "sat1" @@ s2 :> "sat1")[p]]
SameAddr == [p \in Proc |->
                (g :> "33101" @@ s :> "33001" @@ s2 :> "33001")[p]]
=============================================================================
