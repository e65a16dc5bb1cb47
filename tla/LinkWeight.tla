----------------------------- MODULE LinkWeight -----------------------------
(***************************************************************************)
(* The cost NetworkManager::updateRoutingTable gives to the link between   *)
(* two nodes of the local node list.  The code computes it in doubles and  *)
(* narrows each result to an integer; here coordinates are integers that   *)
(* count ticks (Tick ticks to one unit of distance), so that the narrowing *)
(* is integer division.                                                    *)
(***************************************************************************)
EXTENDS Integers, FiniteSets

CONSTANTS
    NoLink,       \* LONG_LONG_MAX in the topology matrix: "no edge"
    Tick,         \* coordinate ticks per unit of distance
    MaxDistance   \* bound: no two nodes are further apart, in units

ASSUME LinkAssumption ==
    /\ NoLink \notin Int
    /\ Tick \in Nat \ {0}
    /\ MaxDistance \in Nat

NodeTypes == {"Ground", "Satellite"}

PenaltyFrom == 500      \* links longer than this pay a quadratic penalty
GroundPenalty == 1000   \* added to every link with one end on the ground

Square(k) == k * k

(***************************************************************************)
(* (int)pow(a - b, 2): the square of a difference of coordinates, narrowed *)
(* to whole units.                                                         *)
(***************************************************************************)
SquaredUnits(a, b) == Square(a - b) \div Square(Tick)

(***************************************************************************)
(* (long long)sqrt(n), the greatest k with k^2 <= n: as many positive      *)
(* numbers have a square of at most n.                                     *)
(***************************************************************************)
IntSqrt(n) == Cardinality({k \in 1 .. MaxDistance : Square(k) <= n})

Length(a, b) == IntSqrt(SquaredUnits(a.coords[1], b.coords[1])
                          + SquaredUnits(a.coords[2], b.coords[2]))

Penalised(w) == IF w > PenaltyFrom
                THEN PenaltyFrom + Square(w - PenaltyFrom)
                ELSE w

IsGround(a) == a.type = "Ground"

\* mutant: ground stations reach each other like any two nodes
WeightOfAnyLink(a, b) ==
    Penalised(Length(a, b)
                + (IF IsGround(a) \/ IsGround(b) THEN GroundPenalty ELSE 0))

(***************************************************************************)
(* Two ground stations have no link; a link between a ground station and a *)
(* satellite is longer by GroundPenalty.                                   *)
(***************************************************************************)
Weight(a, b) ==
    IF IsGround(a) /\ IsGround(b)
    THEN NoLink
    ELSE Penalised(Length(a, b)
                     + (IF IsGround(a) \/ IsGround(b) THEN GroundPenalty ELSE 0))
=============================================================================
