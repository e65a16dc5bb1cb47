---------------------------- MODULE MCMessaging -----------------------------
(***************************************************************************)
(* An instance of Messaging for TLC: a ground station a sends to a station *)
(* that was started twice, at two ports, under one name; a satellite       *)
(* relays.  Bytes are given by the numbers they stand for.                 *)
(***************************************************************************)
EXTENDS Messaging

CONSTANTS a, b, b2, r

BytesOf(s) == [k \in DOMAIN s |-> ByteOf(s[k])]

(* As in runme.sh, but for the second run of ground2.                      *)
StartedWith(type, name, port, x, y) ==
    <<"-node", type, "-name", name, "-ip", "127.0.0.1", "-port", port,
      "-x", x, "-y", y>>

CommandLines ==
    a  :> StartedWith("ground", "ground1", "33101", "1884", "-1599") @@
    b  :> StartedWith("ground", "ground2", "33102", "-1978", "-1806") @@
    b2 :> StartedWith("ground", "ground2", "33103", "-1978", "-1806") @@
    r  :> StartedWith("satellite", "sat1", "33001", "-1552", "-877")

Numbers ==
    "33101" :> 33101 @@ "33102" :> 33102 @@ "33103" :> 33103 @@ "33001" :> 33001 @@
    "1884" :> 1884 @@ "-1599" :> -1599 @@ "-1978" :> -1978 @@ "-1806" :> -1806 @@
    "-1552" :> -1552 @@ "-877" :> -877

Loopback == "127.0.0.1" :> BytesOf(<<127, 0, 0, 1>>)

Hello == {<<>>, BytesOf(<<72, 105>>)}
Memory == {BytesOf(<<205, 171>>)}

(* One bit anywhere, and a byte, a word and two words all of whose bits    *)
(* change.                                                                 *)
OneBit == {[k \in {i} |-> {b0}] : i \in 1 .. WireSize, b0 \in 0 .. 7}
BurstsOf(n) == {[k \in i .. (i + n - 1) |-> 0 .. 7] : i \in 1 .. (WireSize + 1 - n)}

(* A port and the type, a letter.                                          *)
Somewhere == {[k \in 12 .. 14 |-> 0 .. 7], [k \in {20} |-> {4}]}
Everywhere == OneBit \cup BurstsOf(1) \cup BurstsOf(2) \cup BurstsOf(4)

=============================================================================
