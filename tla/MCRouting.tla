----------------------------- MODULE MCRouting ------------------------------
(***************************************************************************)
(* Instances of Routing for TLC.                                           *)
(***************************************************************************)
EXTENDS Routing

Entry(name, addr, type, x, y) ==
    [name |-> name, addr |-> addr, type |-> type, coords |-> <<x, y>>]

(***************************************************************************)
(* Two ground stations and two satellites in a line: the best way from g1  *)
(* to g2 goes through s1 and then s2.                                      *)
(***************************************************************************)
Chain == {Entry("g1", "a1", "Ground",       0, 0),
          Entry("s1", "a2", "Satellite",  100, 0),
          Entry("s2", "a3", "Satellite",  900, 0),
          Entry("g2", "a4", "Ground",    1000, 0)}

(***************************************************************************)
(* A satellite that moves, one that is listed twice (its process was       *)
(* restarted at another port under the same name), a ground station.       *)
(***************************************************************************)
Moving == {Entry("g1", "a1", "Ground",      0,   0),
           Entry("s1", "a2", "Satellite",  30,  40),
           Entry("s1", "a2", "Satellite", 225,  75),
           Entry("s2", "a3", "Satellite", 100,  75),
           Entry("s2", "a4", "Satellite", 250,   0)}

(* What a lookup may find behind the table: an index of a node, or none.   *)
Rubbish == {-7, 1, 99}
=============================================================================
