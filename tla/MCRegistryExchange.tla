------------------------- MODULE MCRegistryExchange -------------------------
(***************************************************************************)
(* An instance of RegistryExchange for TLC: calls about one satellite,     *)
(* at two addresses.                                                       *)
(***************************************************************************)
EXTENDS RegistryExchange

Asked(action, addr, x) ==
    [action |-> action, name |-> "sat1", addr |-> addr, coords |-> <<x, x>>]

SatelliteCalls ==
    {Asked("register", "33001", 0), Asked("register", "33002", 0),
     Asked("update", "33001", 1),
     Asked("deregister", "33001", 0), Asked("list", "", 0),
     Asked("getPublicKey", "", 0)}
=============================================================================
