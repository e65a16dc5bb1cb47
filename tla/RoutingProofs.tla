--------------------------- MODULE RoutingProofs ----------------------------
(***************************************************************************)
(* What is proved of Routing, for every listing, every length of the node  *)
(* list and every IntMax.                                                  *)
(***************************************************************************)
EXTENDS Routing, InductionProofs, FiniteSetTheorems, SequenceTheorems

-----------------------------------------------------------------------------
(* Sequences and weights.                                                  *)

(* A function over 1..n is a sequence of length n.                         *)
LEMMA FunctionIsSeq ==
    ASSUME NEW S, NEW n \in Nat, NEW f \in [1 .. n -> S]
    PROVE  /\ f \in Seq(S)
           /\ Len(f) = n
           /\ DOMAIN f = 1 .. n
<1>1. f \in Seq(S)
  BY SeqDef
<1> QED
  BY <1>1, LenProperties

(* A link weighs a natural number of units; only ground stations have none. *)
LEMMA WeightType ==
    ASSUME NEW a \in Entries, NEW b \in Entries
    PROVE  Weight(a, b) \in Nat \cup {NoLink}
<1> DEFINE len == Length(a, b)
           sum == len + (IF IsGround(a) \/ IsGround(b) THEN GroundPenalty ELSE 0)
<1>1. len \in Nat
  <2> DEFINE n == SquaredUnits(a.coords[1], b.coords[1])
                    + SquaredUnits(a.coords[2], b.coords[2])
             K == {k \in 1 .. MaxDistance : Square(k) <= n}
  <2>1. IsFiniteSet(1 .. MaxDistance)
    BY FS_Interval, LinkAssumption
  <2>2. K \in SUBSET (1 .. MaxDistance)
    OBVIOUS
  <2>3. IsFiniteSet(K)
    BY <2>1, <2>2, FS_Subset
  <2>4. len = Cardinality(K)
    BY DEF Length, IntSqrt
  <2> QED
    BY <2>3, <2>4, FS_CardinalityType
<1>2. sum \in Nat
  BY <1>1 DEF GroundPenalty
<1>3. Penalised(sum) \in Nat
  <2> SUFFICES ASSUME NEW w \in Nat PROVE Penalised(w) \in Nat
    BY <1>2
  <2> QED
    BY DEF Penalised, PenaltyFrom, Square
<1> QED
  BY <1>3 DEF Weight
-----------------------------------------------------------------------------
(* The inductive invariant.                                                *)

TypeInv ==
    /\ TypeOK
    /\ fetcher = "pushing" => pushing \in Listing
    /\ fetcher = "resetting" => reset < Len(nextHop) /\ Len(nextHop) = Len(nodes)

(* Where route() is: it has begun and not returned.                        *)
Rounding == fetcher \in {"resetting", "routing"}

(***************************************************************************)
(* The table and the list: the table has room for a prefix of the list,    *)
(* the whole of it while route() runs, and points nowhere else.            *)
(***************************************************************************)
TableInv ==
    /\ Len(nextHop) <= Len(nodes)
    /\ \A j \in DOMAIN nextHop : nextHop[j] \in DOMAIN nextHop
    /\ nextHop # <<>> => source \in DOMAIN nextHop
    /\ sender.stage = "sent" => sender.hop \in DOMAIN nodes
    /\ Rounding => /\ nextHop # <<>>
                   /\ DOMAIN nextHop = DOMAIN nodes
                   /\ topology = Topology
                   /\ Knows(Self) => nodes[source].name = Self

(***************************************************************************)
(* The source is the first node of this process's name, or the first of    *)
(* all as long as the table has no such node; and a zero of resize is an   *)
(* entry that the present round has yet to reset.                          *)
(***************************************************************************)
IsOwn(s) == \/ IsFirst(s, Self)
            \/ s = 1 /\ \A k \in DOMAIN nextHop : nodes[k].name # Self

SourceInv ==
    /\ nextHop # <<>> => IsOwn(source)
    /\ \A j \in zeroed : fetcher = "resetting" /\ j > reset

(***************************************************************************)
(* Dijkstra's invariant.  The visited nodes are nearer than the others,    *)
(* and no link out of them offers a shorter way; each node reached is one  *)
(* link beyond a visited one, each other node has itself as its hop, once  *)
(* it has been reset.                                                      *)
(***************************************************************************)
SourceFirst ==
    nextHop # <<>> => /\ minDist[source] = 0
                      /\ visited = {} \/ source \in visited

VisitedNearer ==
    \A u \in visited, j \in DOMAIN nextHop \ visited : minDist[u] <= minDist[j]

VisitedRelaxed ==
    \A u \in visited, j \in DOMAIN nextHop :
        Reached(u) /\ Linked(u, j) => minDist[j] - minDist[u] <= topology[u][j]

ReachedThroughVisited ==
    \A j \in DOMAIN nextHop \ {source} : Reached(j) =>
        /\ Before(j) # j
        /\ Before(j) \in visited
        /\ Linked(Before(j), j)
        /\ minDist[j] = minDist[Before(j)] + topology[Before(j)][j]

UnreachedDirect ==
    \A j \in DOMAIN nextHop :
        ~Reached(j) /\ (fetcher = "resetting" => j <= reset) => nextHop[j] = j

DijkstraInv ==
    /\ SourceFirst
    /\ VisitedNearer
    /\ VisitedRelaxed
    /\ ReachedThroughVisited
    /\ UnreachedDirect
    /\ NoSelfRelay
    /\ fetcher = "resetting" => visited = {}
    /\ ~Rounding => visited = DOMAIN nextHop

IInv == TypeInv /\ TableInv /\ SourceInv /\ DijkstraInv
-----------------------------------------------------------------------------
(* Type correctness.                                                       *)

LEMMA InitInv == Init => IInv
<1> SUFFICES ASSUME Init PROVE IInv
  OBVIOUS
<1> USE DEF Init
<1>1. nodes \in Seq(Entries) /\ nextHop \in Seq(Nat)
  BY EmptySeq
<1>2. /\ Len(nextHop) = 0 /\ DOMAIN nextHop = {}
      /\ Len(nodes) = 0
  BY <1>1, LenProperties
<1>3. TypeInv
  <2>1. ASSUME NEW S PROVE <<>> \in [{} -> S]
    BY EmptySeq, LenProperties, Len(<<>>) = 0, 1 .. 0 = {}
  <2>2. /\ minDist \in [DOMAIN nextHop -> 0 .. IntMax]
        /\ topology \in [DOMAIN nextHop -> [DOMAIN nextHop -> Nat \cup {NoLink}]]
    BY <1>2, <2>1
  <2> QED
    BY <1>1, <1>2, <2>2 DEF TypeInv, TypeOK
<1>4. TableInv
  BY <1>2 DEF TableInv, Idle, Rounding
<1>5. SourceInv
  BY <1>2 DEF SourceInv
<1>6. DijkstraInv
  BY <1>2 DEF DijkstraInv, SourceFirst, VisitedNearer, VisitedRelaxed,
              ReachedThroughVisited, UnreachedDirect, NoSelfRelay, Rounding
<1> QED
  BY <1>3, <1>4, <1>5, <1>6 DEF IInv

LEMMA TopologyType ==
    ASSUME TypeOK
    PROVE  Topology \in [DOMAIN nodes -> [DOMAIN nodes -> Nat \cup {NoLink}]]
<1>1. \A i \in DOMAIN nodes : nodes[i] \in Entries
  BY LenProperties DEF TypeOK
<1>2. \A i, j \in DOMAIN nodes : Weight(nodes[i], nodes[j]) \in Nat \cup {NoLink}
  BY <1>1, WeightType
<1> QED
  BY <1>2 DEF Topology

(* What every proof about a step uses of the types.                        *)
LEMMA Types ==
    ASSUME TypeOK
    PROVE  /\ Len(nodes) \in Nat
           /\ DOMAIN nodes = 1 .. Len(nodes)
           /\ \A i \in DOMAIN nodes : nodes[i] \in Entries
           /\ Len(nextHop) \in Nat
           /\ DOMAIN nextHop = 1 .. Len(nextHop)
           /\ \A j \in DOMAIN nextHop : nextHop[j] \in Nat /\ minDist[j] \in 0 .. IntMax
           /\ \A i, j \in DOMAIN nextHop : topology[i][j] \in Nat \cup {NoLink}
           /\ IntMax \in Nat \ {0}
           /\ NoLink \notin Int
BY LenProperties, RoutingAssumption, LinkAssumption DEF TypeOK

(* resize: one entry per node, those of the last round and zeros.          *)
LEMMA ResizedProperties ==
    ASSUME TypeOK, nodes # <<>>
    PROVE  /\ Resized \in Seq(Nat)
           /\ Len(Resized) = Len(nodes)
           /\ DOMAIN Resized = DOMAIN nodes
           /\ Resized # <<>>
           /\ \A i \in DOMAIN nodes :
                Resized[i] = IF i \in DOMAIN nextHop THEN nextHop[i] ELSE 1
<1> DEFINE n == Len(nodes)
<1>1. n \in Nat /\ DOMAIN nodes = 1 .. n /\ \A j \in DOMAIN nextHop : nextHop[j] \in Nat
  BY Types
<1>2. Resized \in [1 .. n -> Nat]
  BY <1>1 DEF Resized
<1>3. Resized \in Seq(Nat) /\ Len(Resized) = n /\ DOMAIN Resized = 1 .. n
  BY <1>1, <1>2, FunctionIsSeq
<1>4. n # 0
  BY EmptySeq DEF TypeOK
<1>5. Resized # <<>>
  BY <1>3, <1>4, Len(<<>>) = 0
<1> QED
  BY <1>1, <1>3, <1>5 DEF Resized

(* One entry is reset, the next in order.                                  *)
LEMMA ResetHopProperties ==
    ASSUME TypeInv, ResetHop
    PROVE  /\ reset' = reset + 1 /\ reset \in Nat
           /\ reset' \in DOMAIN nextHop
           /\ nextHop' = [nextHop EXCEPT ![reset'] = reset']
           /\ nextHop' \in Seq(Nat)
           /\ Len(nextHop') = Len(nextHop)
           /\ DOMAIN nextHop' = DOMAIN nextHop
           /\ nextHop' # <<>>
<1> DEFINE n == Len(nextHop)
<1>1. n \in Nat /\ DOMAIN nextHop = 1 .. n /\ \A j \in DOMAIN nextHop : nextHop[j] \in Nat
  BY Types DEF TypeInv
<1>2. reset' = reset + 1 /\ reset \in 0 .. n /\ reset < n
  BY DEF ResetHop, TypeInv, TypeOK
<1>3. reset' \in 1 .. n
  BY <1>1, <1>2
<1>4. nextHop' = [nextHop EXCEPT ![reset'] = reset']
  BY DEF ResetHop, DirectHop
<1>5. nextHop' \in [1 .. n -> Nat]
  <2>1. nextHop \in [1 .. n -> Nat]
    BY <1>1 DEF TypeInv, TypeOK
  <2> QED
    BY <1>3, <1>4, <2>1
<1>6. nextHop' \in Seq(Nat) /\ Len(nextHop') = n /\ DOMAIN nextHop' = 1 .. n
  BY <1>1, <1>5, FunctionIsSeq
<1>7. nextHop' # <<>>
  BY <1>3, <1>6, Len(<<>>) = 0
<1> QED
  BY <1>1, <1>2, <1>3, <1>4, <1>6, <1>7

(***************************************************************************)
(* A visit lowers distances and stays within the types.                    *)
(***************************************************************************)
LEMMA ImprovedDistance ==
    ASSUME TypeOK, NEW u \in DOMAIN nextHop, NEW j \in DOMAIN nextHop, Improves(u, j)
    PROVE  /\ topology[u][j] \in Nat
           /\ Reached(u)
           /\ minDist[u] + topology[u][j] \in 0 .. IntMax
           /\ minDist[u] + topology[u][j] < minDist[j]
           /\ minDist[u] <= minDist[u] + topology[u][j]
<1>1. topology[u][j] \in Nat
  BY Types DEF Improves
<1>2. /\ minDist[u] \in 0 .. IntMax /\ minDist[j] \in 0 .. IntMax
      /\ IntMax \in Nat
      /\ topology[u][j] < minDist[j] - minDist[u]
  BY Types DEF Improves
<1> QED
  BY <1>1, <1>2 DEF Reached

LEMMA TypeStep ==
    ASSUME TypeInv, [Next]_vars
    PROVE  TypeInv'
<1> USE DEF TypeInv, TypeOK
<1>1. ASSUME NEW e \in Listing, RefreshNode(e)
      PROVE  TypeInv'
  <2>1. PICK i \in DOMAIN nodes :
          nodes' = [nodes EXCEPT ![i] = [@ EXCEPT !.coords = e.coords]]
    BY <1>1 DEF RefreshNode
  <2>2. e \in Entries /\ nodes[i] \in Entries
    BY Types, RoutingAssumption
  <2>3. [nodes[i] EXCEPT !.coords = e.coords] \in Entries
    BY <2>2 DEF Entries
  <2>4. nodes' \in Seq(Entries)
    BY <2>1, <2>3, ExceptSeq, Types
  <2> QED
    BY <1>1, <2>4 DEF RefreshNode, tableVars
<1>2. ASSUME NEW e \in Listing, BeginPush(e)
      PROVE  TypeInv'
  BY <1>2 DEF BeginPush, tableVars
<1>3. CASE EndPush
  <2>1. pushing \in Entries
    BY <1>3, RoutingAssumption DEF EndPush
  <2>2. nodes' \in Seq(Entries)
    BY <1>3, <2>1, AppendProperties DEF EndPush, Stored
  <2> QED
    BY <1>3, <2>2 DEF EndPush, tableVars, Nobody
<1>4. CASE BeginRoute
  <2>1. nodes # <<>> /\ nextHop' = Resized
    BY <1>4 DEF BeginRoute
  <2>2. /\ nextHop' \in Seq(Nat) /\ DOMAIN nextHop' = DOMAIN nodes
        /\ Len(nextHop') = Len(nodes) /\ Len(nodes) \in Nat /\ Len(nodes) # 0
    BY <2>1, ResizedProperties, Types, EmptySeq
  <2>3. /\ source' \in Nat
        /\ minDist' \in [DOMAIN nextHop' -> 0 .. IntMax]
    BY <1>4, <2>2, Types, RoutingAssumption DEF BeginRoute
  <2>4. topology' \in [DOMAIN nextHop' -> [DOMAIN nextHop' -> Nat \cup {NoLink}]]
    BY <1>4, <2>2, TopologyType DEF BeginRoute
  <2>5. reset' = 0 /\ zeroed' \subseteq DOMAIN nextHop' /\ visited' = {}
    BY <1>4, <2>2 DEF BeginRoute
  <2>6. UNCHANGED <<nodes, pushing, sender>> /\ fetcher' = "resetting"
    BY <1>4 DEF BeginRoute
  <2>7. TypeOK'
    BY <2>2, <2>3, <2>4, <2>5, <2>6
  <2> QED
    BY <2>2, <2>5, <2>6, <2>7
<1>12. CASE ResetHop
  <2>1. /\ reset' = reset + 1 /\ reset \in Nat
        /\ nextHop' \in Seq(Nat)
        /\ reset' \in DOMAIN nextHop
        /\ Len(nextHop') = Len(nextHop)
        /\ DOMAIN nextHop' = DOMAIN nextHop
    BY <1>12, ResetHopProperties
  <2>2. Len(nextHop) \in Nat /\ DOMAIN nextHop = 1 .. Len(nextHop)
    BY Types
  <2>3. reset' \in 0 .. Len(nextHop') /\ zeroed' \subseteq DOMAIN nextHop'
    BY <1>12, <2>1, <2>2 DEF ResetHop
  <2>4. /\ UNCHANGED <<nodes, topology, source, minDist, visited, pushing, sender>>
        /\ fetcher' \in {"resetting", "routing"}
    BY <1>12 DEF ResetHop
  <2>5. fetcher' = "resetting" => reset' # Len(nodes)
    BY <1>12 DEF ResetHop
  <2>6. TypeOK'
    BY <2>1, <2>3, <2>4
  <2> QED
    BY <1>12, <2>1, <2>2, <2>3, <2>4, <2>5, <2>6 DEF ResetHop
<1>5. CASE RouteWithoutNodes
  BY <1>5 DEF RouteWithoutNodes, tableVars
<1>6. ASSUME NEW u \in DOMAIN nextHop, Visit(u)
      PROVE  TypeInv'
  <2> DEFINE n == Len(nextHop)
  <2>1. n \in Nat /\ DOMAIN nextHop = 1 .. n
    BY Types
  <2>2. nextHop' \in Seq(Nat) /\ DOMAIN nextHop' = DOMAIN nextHop
    <3>1. \A j \in DOMAIN nextHop : HopThrough(u, j) \in Nat
      BY <2>1, Types DEF HopThrough
    <3>2. nextHop' \in [1 .. n -> Nat]
      BY <1>6, <2>1, <3>1 DEF Visit
    <3> QED
      BY <3>2, <2>1, FunctionIsSeq
  <2>3. minDist' \in [DOMAIN nextHop' -> 0 .. IntMax]
    <3>1. \A j \in DOMAIN nextHop :
            (IF Improves(u, j) THEN minDist[u] + topology[u][j] ELSE minDist[j])
              \in 0 .. IntMax
      BY Types, ImprovedDistance
    <3> QED
      BY <1>6, <2>2, <3>1 DEF Visit
  <2> QED
    BY <1>6, <2>2, <2>3 DEF Visit
<1>7. ASSUME NEW name \in ListedNames, FindNode(name)
      PROVE  TypeInv'
  BY <1>7 DEF FindNode, tableVars, Found
<1>8. CASE GetNextHop
  <2>1. \A i \in DOMAIN nextHop : nextHop[i] \in Nat
    BY Types
  <2>2. sender.name \in ListedNames
    BY <1>8 DEF GetNextHop, Idle
  <2> QED
    BY <1>8, <2>1, <2>2 DEF GetNextHop, tableVars, Sent
<1>9. CASE ReadBeyondNextHop
  <2>1. sender.name \in ListedNames
    BY <1>9 DEF ReadBeyondNextHop, Idle
  <2> QED
    BY <1>9, <2>1 DEF ReadBeyondNextHop, ReadGarbage, tableVars, Strayed
<1>10. CASE ReadDuringMove
  <2>1. sender.stage = "found" => sender.name \in ListedNames
    BY <1>10 DEF Idle
  <2>2. /\ UNCHANGED <<nodes, tableVars, pushing>>
        /\ fetcher \in {"pushing", "fetching"} /\ fetcher' \in {fetcher, "crashed"}
        /\ \/ sender' = sender
           \/ sender.stage = "found" /\ \E g \in Garbage : sender' = Strayed(sender.name, g)
    BY <1>10 DEF ReadDuringMove, ReadGarbage
  <2>3. sender' \in {Idle} \cup [stage : {"found"}, name : ListedNames]
                 \cup [stage : {"sent"}, name : ListedNames, hop : Nat]
                 \cup [stage : {"strayed"}, name : ListedNames, hop : Garbage]
    BY <2>1, <2>2 DEF Strayed
  <2> QED
    BY <2>2, <2>3 DEF tableVars
<1>11. CASE UNCHANGED vars
  BY <1>11 DEF vars
<1> QED
  BY <1>1, <1>2, <1>3, <1>4, <1>5, <1>6, <1>7, <1>8, <1>9, <1>10, <1>11, <1>12
     DEF Next, AddNode, UpdateRoutingTable, VisitNearest, SendMessage
-----------------------------------------------------------------------------
(* The table and the list.                                                 *)

(* The indices of the table are indices of the list.                       *)
LEMMA Prefix ==
    ASSUME TypeOK, Len(nextHop) <= Len(nodes)
    PROVE  /\ DOMAIN nextHop \subseteq DOMAIN nodes
           /\ DOMAIN nextHop \subseteq Nat
           /\ \A u \in DOMAIN nextHop : Len(nextHop) # 0
<1> DEFINE m == Len(nextHop)
           n == Len(nodes)
<1>1. m \in Nat /\ n \in Nat /\ DOMAIN nextHop = 1 .. m /\ DOMAIN nodes = 1 .. n
  BY Types
<1> QED
  BY <1>1

LEMMA TableStep ==
    ASSUME TypeInv, TableInv, [Next]_vars
    PROVE  TableInv'
<1>a. /\ DOMAIN nextHop \subseteq DOMAIN nodes
      /\ DOMAIN nextHop \subseteq Nat
      /\ \A u \in DOMAIN nextHop : Len(nextHop) # 0
  BY Prefix DEF TypeInv, TableInv
<1> USE DEF TableInv, Rounding
<1>0. /\ Len(nodes) \in Nat /\ DOMAIN nodes = 1 .. Len(nodes)
      /\ Len(nextHop) \in Nat /\ DOMAIN nextHop = 1 .. Len(nextHop)
      /\ nodes \in Seq(Entries) /\ nextHop \in Seq(Nat)
  BY Types DEF TypeInv, TypeOK
<1>1. ASSUME NEW e \in Listing, RefreshNode(e)
      PROVE  TableInv'
  <2>1. PICK i \in DOMAIN nodes :
          nodes' = [nodes EXCEPT ![i] = [@ EXCEPT !.coords = e.coords]]
    BY <1>1 DEF RefreshNode
  <2>2. nodes' \in [1 .. Len(nodes) -> {nodes'[k] : k \in 1 .. Len(nodes)}]
    BY <1>0, <2>1
  <2>3. Len(nodes') = Len(nodes) /\ DOMAIN nodes' = DOMAIN nodes
    BY <1>0, <2>2, FunctionIsSeq
  <2> QED
    BY <1>1, <2>3 DEF RefreshNode, tableVars
<1>2. ASSUME NEW e \in Listing, BeginPush(e)
      PROVE  TableInv'
  BY <1>2 DEF BeginPush, tableVars
<1>3. CASE EndPush
  <2>1. pushing \in Entries
    BY <1>3, RoutingAssumption DEF EndPush, TypeInv
  <2>2. Len(nodes') = Len(nodes) + 1 /\ DOMAIN nodes' = 1 .. Len(nodes) + 1
    BY <1>0, <1>3, <2>1, AppendProperties, LenProperties DEF EndPush, Stored
  <2> QED
    BY <1>0, <1>3, <2>2 DEF EndPush, tableVars
<1>4. CASE BeginRoute
  <2>1. nodes # <<>> /\ nextHop' = Resized
    BY <1>4 DEF BeginRoute
  <2>2. /\ Len(nextHop') = Len(nodes) /\ DOMAIN nextHop' = DOMAIN nodes
        /\ nextHop' # <<>>
        /\ \A i \in DOMAIN nodes :
             nextHop'[i] = IF i \in DOMAIN nextHop THEN nextHop[i] ELSE 1
    BY <2>1, ResizedProperties DEF TypeInv
  <2>3. 1 \in DOMAIN nodes
    <3>1. Len(nodes) # 0
      BY <1>0, <2>1, EmptySeq
    <3>2. \A n \in Nat : n # 0 => 1 \in 1 .. n
      OBVIOUS
    <3> QED
      BY <1>0, <3>1, <3>2
  <2>4. \A j \in DOMAIN nextHop' : nextHop'[j] \in DOMAIN nextHop'
    BY <1>a, <2>2, <2>3
  <2>5. /\ topology' = Topology' /\ source' \in DOMAIN nodes
        /\ UNCHANGED <<nodes, sender>>
    BY <1>4 DEF BeginRoute, Topology
  <2>6. Knows(Self)' => nodes[source'].name = Self
    BY <1>4 DEF BeginRoute, IsSourceIndex, IsFirst, Knows
  <2>7. Knows(Self)' = Knows(Self)
    BY <2>5 DEF Knows
  <2>8. Len(nextHop') <= Len(nodes')
    <3>1. Len(nextHop') = Len(nodes') /\ Len(nodes') \in Nat
      BY <1>0, <2>2, <2>5
    <3> QED
      BY <3>1
  <2>9. sender'.stage = "sent" => sender'.hop \in DOMAIN nodes'
    BY <2>5
  <2>10. Knows(Self)' => nodes'[source'].name = Self
    BY <2>5, <2>6
  <2> QED
    BY <2>2, <2>4, <2>5, <2>8, <2>9, <2>10
<1>12. CASE ResetHop
  <2>1. /\ reset' \in DOMAIN nextHop
        /\ nextHop' = [nextHop EXCEPT ![reset'] = reset']
        /\ Len(nextHop') = Len(nextHop)
        /\ DOMAIN nextHop' = DOMAIN nextHop
        /\ nextHop' # <<>>
    BY <1>12, ResetHopProperties DEF TypeInv
  <2>2. \A j \in DOMAIN nextHop' : nextHop'[j] \in DOMAIN nextHop'
    BY <2>1
  <2>3. fetcher = "resetting" /\ UNCHANGED <<nodes, topology, source, sender>>
    BY <1>12 DEF ResetHop
  <2>4. Topology' = Topology /\ Knows(Self)' = Knows(Self)
    BY <2>3 DEF Topology, Knows
  <2> QED
    BY <2>1, <2>2, <2>3, <2>4
<1>5. CASE RouteWithoutNodes
  BY <1>5 DEF RouteWithoutNodes, tableVars
<1>6. ASSUME NEW u \in DOMAIN nextHop, Visit(u)
      PROVE  TableInv'
  <2>1. \A j \in DOMAIN nextHop : HopThrough(u, j) \in DOMAIN nextHop
    BY DEF HopThrough
  <2>2. nextHop' = [j \in DOMAIN nextHop |-> HopThrough(u, j)]
    BY <1>6 DEF Visit
  <2>3. nextHop' \in [1 .. Len(nextHop) -> Nat]
    <3>1. DOMAIN nextHop = 1 .. Len(nextHop) /\ DOMAIN nextHop \subseteq Nat
      BY <1>0, <1>a
    <3>2. \A j \in DOMAIN nextHop : HopThrough(u, j) \in Nat
      BY <2>1, <3>1
    <3>3. nextHop' \in [DOMAIN nextHop -> Nat]
      BY <2>2, <3>2
    <3> QED
      BY <3>1, <3>3
  <2>4. Len(nextHop') = Len(nextHop) /\ DOMAIN nextHop' = DOMAIN nextHop
    BY <1>0, <2>3, FunctionIsSeq
  <2>5. nextHop' # <<>>
    <3>1. Len(nextHop) # 0
      BY <1>a
    <3>2. Len(<<>>) = 0
      OBVIOUS
    <3> QED
      BY <2>4, <3>1, <3>2
  <2>6. Topology' = Topology /\ Knows(Self)' = Knows(Self)
    BY <1>6 DEF Visit, Topology, Knows
  <2> QED
    BY <1>6, <2>1, <2>2, <2>4, <2>5, <2>6 DEF Visit
<1>7. ASSUME NEW name \in ListedNames, FindNode(name)
      PROVE  TableInv'
  BY <1>7 DEF FindNode, tableVars, Found, Topology, Knows
<1>8. CASE GetNextHop
  <2>1. sender'.stage = "sent" => sender'.hop \in DOMAIN nextHop
    BY <1>8 DEF GetNextHop, Sent
  <2> QED
    <3>1. UNCHANGED <<nodes, topology, nextHop, source, fetcher>>
      BY <1>8 DEF GetNextHop, tableVars
    <3>2. Topology' = Topology /\ Knows(Self)' = Knows(Self)
      BY <3>1 DEF Topology, Knows
    <3>3. DOMAIN nextHop \subseteq DOMAIN nodes
      BY <1>a
    <3> QED
      BY <2>1, <3>1, <3>2, <3>3
<1>9. CASE ReadBeyondNextHop
  <2>1. /\ UNCHANGED <<nodes, topology, nextHop, source>>
        /\ ~Rounding /\ fetcher' \in {fetcher, "crashed"}
        /\ sender'.stage = "sent" => FALSE
    BY <1>9 DEF ReadBeyondNextHop, ReadGarbage, tableVars, Strayed
  <2> QED
    BY <2>1
<1>10. CASE ReadDuringMove
  <2>1. /\ UNCHANGED <<nodes, topology, nextHop, source>>
        /\ ~Rounding /\ fetcher' \in {fetcher, "crashed"}
        /\ sender' = sender \/ sender'.stage = "strayed"
    BY <1>10 DEF ReadDuringMove, ReadGarbage, tableVars, Strayed
  <2> QED
    BY <2>1
<1>11. CASE UNCHANGED vars
  BY <1>11 DEF vars, Topology, Knows
<1> QED
  BY <1>1, <1>2, <1>3, <1>4, <1>5, <1>6, <1>7, <1>8, <1>9, <1>10, <1>11, <1>12
     DEF Next, AddNode, UpdateRoutingTable, VisitNearest, SendMessage
-----------------------------------------------------------------------------
(* The source and the zeros.                                               *)

(* A step keeps every node of the list at its index, its coordinates apart. *)
LEMMA NodesKept ==
    ASSUME TypeInv, [Next]_vars
    PROVE  \A i \in DOMAIN nodes :
             /\ i \in DOMAIN nodes'
             /\ nodes'[i].name = nodes[i].name
             /\ nodes'[i].addr = nodes[i].addr
             /\ nodes'[i].type = nodes[i].type
<1> DEFINE Kept == \A i \in DOMAIN nodes :
                     /\ i \in DOMAIN nodes'
                     /\ nodes'[i].name = nodes[i].name
                     /\ nodes'[i].addr = nodes[i].addr
                     /\ nodes'[i].type = nodes[i].type
<1>0. /\ nodes \in Seq(Entries) /\ TypeOK
      /\ \A i \in DOMAIN nodes : nodes[i] \in Entries
  BY Types DEF TypeInv, TypeOK
<1>1. ASSUME NEW e \in Listing, RefreshNode(e) PROVE Kept
  <2>1. PICK i \in DOMAIN nodes :
          nodes' = [nodes EXCEPT ![i] = [@ EXCEPT !.coords = e.coords]]
    BY <1>1 DEF RefreshNode
  <2>2. /\ nodes'[i] = [nodes[i] EXCEPT !.coords = e.coords]
        /\ \A k \in DOMAIN nodes \ {i} : nodes'[k] = nodes[k]
        /\ DOMAIN nodes' = DOMAIN nodes
    BY <2>1
  <2>3. nodes[i] \in Entries
    BY <1>0
  <2>4. /\ nodes'[i].name = nodes[i].name
        /\ nodes'[i].addr = nodes[i].addr
        /\ nodes'[i].type = nodes[i].type
    BY <2>2, <2>3 DEF Entries
  <2> QED
    BY <2>2, <2>4
<1>2. CASE EndPush
  <2>1. pushing \in Entries
    BY <1>2, RoutingAssumption DEF EndPush, TypeInv
  <2>2. \A i \in DOMAIN nodes : i \in DOMAIN nodes' /\ nodes'[i] = nodes[i]
    BY <1>0, <1>2, <2>1, AppendProperties, LenProperties DEF EndPush, Stored
  <2> QED
    BY <2>2
<1>3. CASE UNCHANGED nodes
  BY <1>3
<1> QED
  BY <1>1, <1>2, <1>3
     DEF Next, AddNode, UpdateRoutingTable, VisitNearest, SendMessage, BeginPush,
         BeginRoute, RouteWithoutNodes, ResetHop, Visit, FindNode, GetNextHop,
         ReadBeyondNextHop, ReadDuringMove, vars

LEMMA SourceStep ==
    ASSUME TypeInv, TableInv, SourceInv, [Next]_vars
    PROVE  SourceInv'
<1>1. /\ DOMAIN nextHop \subseteq DOMAIN nodes
      /\ DOMAIN nodes = 1 .. Len(nodes) /\ Len(nodes) \in Nat
      /\ \A i \in DOMAIN nodes : i \in DOMAIN nodes' /\ nodes'[i].name = nodes[i].name
  BY Prefix, Types, NodesKept DEF TypeInv, TableInv
<1>2. ASSUME DOMAIN nextHop' = DOMAIN nextHop, source' = source, nextHop # <<>>
      PROVE  IsOwn(source)'
  <2>1. CASE IsFirst(source, Self)
    <3>1. source \in DOMAIN nodes /\ \A k \in 1 .. (source - 1) : k \in DOMAIN nodes
      BY <1>1, <2>1 DEF IsFirst
    <3> QED
      BY <1>1, <1>2, <2>1, <3>1 DEF IsFirst, IsOwn
  <2>2. CASE source = 1 /\ \A k \in DOMAIN nextHop : nodes[k].name # Self
    BY <1>1, <1>2, <2>2 DEF IsOwn
  <2> QED
    BY <1>2, <2>1, <2>2 DEF SourceInv, IsOwn
<1>3. CASE BeginRoute
  <2>1. DOMAIN nextHop' = DOMAIN nodes /\ UNCHANGED nodes /\ IsSourceIndex(source')
    BY <1>3, ResizedProperties DEF BeginRoute, TypeInv
  <2>2. IsOwn(source)'
    BY <2>1 DEF IsSourceIndex, IsOwn, IsFirst, Knows
  <2>3. zeroed' \subseteq Nat \ {0} /\ fetcher' = "resetting" /\ reset' = 0
    BY <1>1, <1>3 DEF BeginRoute
  <2>4. \A j \in zeroed' : j > reset'
    BY <2>3
  <2> QED
    BY <2>2, <2>3, <2>4 DEF SourceInv
<1>4. CASE ResetHop
  <2>1. /\ DOMAIN nextHop' = DOMAIN nextHop /\ source' = source
        /\ reset' = reset + 1 /\ reset \in Nat
        /\ Len(nextHop) = Len(nodes) /\ zeroed \subseteq 1 .. Len(nodes)
        /\ zeroed' = zeroed \ {reset'}
        /\ fetcher' = IF reset' = Len(nodes) THEN "routing" ELSE "resetting"
        /\ nextHop # <<>>
    <3>1. nextHop # <<>>
      BY <1>4, ResetHopProperties DEF TableInv, ResetHop, Rounding
    <3>2. fetcher = "resetting" /\ Len(nextHop) = Len(nodes)
      BY <1>4 DEF ResetHop, TypeInv
    <3>3. zeroed \subseteq 1 .. Len(nodes)
      BY <3>2, Types DEF TypeInv, TypeOK
    <3> QED
      BY <1>4, <3>1, <3>2, <3>3, ResetHopProperties DEF ResetHop
  <2>2. \A j \in zeroed' : j > reset' /\ j <= Len(nodes) /\ j \in Nat
    <3> SUFFICES ASSUME NEW j \in zeroed'
                 PROVE  j > reset' /\ j <= Len(nodes) /\ j \in Nat
      OBVIOUS
    <3>1. j \in zeroed /\ j # reset' /\ j \in 1 .. Len(nodes)
      BY <2>1
    <3>2. j > reset
      BY <3>1 DEF SourceInv
    <3>3. Len(nodes) \in Nat
      BY <1>1
    <3>4. j \in Nat /\ j <= Len(nodes)
      BY <3>1, <3>3
    <3>5. reset \in Nat /\ reset' = reset + 1
      BY <2>1
    <3> QED
      BY <3>1, <3>2, <3>4, <3>5
  <2>3. \A j \in zeroed' : fetcher' = "resetting"
    <3>1. ASSUME reset' = Len(nodes), NEW j \in zeroed' PROVE FALSE
      <4>1. j > Len(nodes) /\ j <= Len(nodes) /\ j \in Nat /\ Len(nodes) \in Nat
        BY <1>1, <2>2, <3>1
      <4> QED
        BY <4>1
    <3>2. fetcher' = IF reset' = Len(nodes) THEN "routing" ELSE "resetting"
      BY <2>1
    <3> QED
      BY <3>1, <3>2
  <2> QED
    BY <1>2, <2>1, <2>2, <2>3 DEF SourceInv
<1>5. CASE /\ UNCHANGED <<nextHop, source, zeroed, reset>>
           /\ fetcher # "resetting" \/ fetcher' = fetcher
  BY <1>2, <1>5 DEF SourceInv
<1>6. ASSUME NEW u \in DOMAIN nextHop, Visit(u)
      PROVE  SourceInv'
  <2>1. /\ DOMAIN nextHop' = DOMAIN nextHop /\ UNCHANGED <<source, zeroed>>
        /\ fetcher = "routing" /\ nextHop # <<>>
    BY <1>6 DEF Visit, TableInv, Rounding
  <2> QED
    BY <1>2, <2>1 DEF SourceInv
<1>7. CASE ReadBeyondNextHop
  <2>1. fetcher # "resetting"
    BY <1>7 DEF ReadBeyondNextHop, TableInv, Rounding
  <2> QED
    BY <1>5, <1>7, <2>1 DEF ReadBeyondNextHop, tableVars
<1> QED
  BY <1>3, <1>4, <1>5, <1>6, <1>7
     DEF Next, AddNode, UpdateRoutingTable, VisitNearest, SendMessage,
         RefreshNode, BeginPush, EndPush, RouteWithoutNodes, FindNode, GetNextHop,
         ReadDuringMove, vars, tableVars
-----------------------------------------------------------------------------
(* Dijkstra's invariant.                                                   *)

(* Steps that leave the table alone.                                       *)
LEMMA DijkstraKept ==
    ASSUME DijkstraInv, UNCHANGED tableVars,
           Rounding \/ Rounding' => fetcher' = fetcher
    PROVE  DijkstraInv'
<1>1. /\ UNCHANGED <<topology, nextHop, reset, zeroed, source, minDist, visited>>
      /\ (fetcher = "resetting") <=> (fetcher' = "resetting")
      /\ Rounding <=> Rounding'
  BY DEF tableVars, Rounding
<1>2. SourceFirst' /\ VisitedNearer' /\ VisitedRelaxed' /\ ReachedThroughVisited'
  BY <1>1 DEF DijkstraInv, SourceFirst, VisitedNearer, VisitedRelaxed,
              ReachedThroughVisited, Reached, Linked, Before
<1>3. UnreachedDirect' /\ NoSelfRelay'
  BY <1>1 DEF DijkstraInv, UnreachedDirect, NoSelfRelay, Reached
<1> QED
  BY <1>1, <1>2, <1>3 DEF DijkstraInv

(***************************************************************************)
(* resize adds zeros and nothing else: an entry of the last round that     *)
(* names the new source is of a round that had the same source.            *)
(***************************************************************************)
LEMMA BeginRouteSelf ==
    ASSUME TypeInv, TableInv, SourceInv, NoSelfRelay, BeginRoute
    PROVE  NoSelfRelay'
<1>0. /\ DOMAIN nextHop \subseteq DOMAIN nodes /\ DOMAIN nodes \subseteq Nat
      /\ nodes # <<>> /\ fetcher = "fetching"
  <2>1. TypeOK /\ Len(nextHop) <= Len(nodes)
    BY DEF TypeInv, TableInv
  <2>2. nodes # <<>> /\ fetcher = "fetching"
    BY DEF BeginRoute
  <2>3. DOMAIN nodes = 1 .. Len(nodes) /\ Len(nodes) \in Nat
    BY <2>1, Types
  <2> QED
    BY <2>1, <2>2, <2>3, Prefix
<1>1. /\ DOMAIN nextHop' = DOMAIN nodes
      /\ \A i \in DOMAIN nodes :
           nextHop'[i] = IF i \in DOMAIN nextHop THEN nextHop[i] ELSE 1
      /\ zeroed' = DOMAIN nodes \ DOMAIN nextHop
      /\ source' \in DOMAIN nodes /\ IsSourceIndex(source')
  BY <1>0, ResizedProperties DEF BeginRoute, TypeInv
<1> SUFFICES ASSUME NEW j \in DOMAIN nodes, nextHop'[j] = source', j # source'
             PROVE  j \in zeroed' /\ source' = 1
  BY <1>1 DEF NoSelfRelay
<1>2. CASE j \notin DOMAIN nextHop
  BY <1>1, <1>2
<1>3. CASE j \in DOMAIN nextHop
  <2>1. nextHop[j] = source' /\ source' \in DOMAIN nextHop /\ nextHop # <<>>
    BY <1>1, <1>3 DEF TableInv
  <2>2. source' = source
    <3>1. CASE IsFirst(source, Self)
      <4>1. IsFirst(source', Self)
        BY <1>1, <3>1 DEF IsSourceIndex, IsFirst, Knows
      <4>2. source \in Nat /\ source' \in Nat
        BY <1>0, <3>1, <4>1 DEF IsFirst
      <4>3. ~(source < source') /\ ~(source' < source)
        <5>1. /\ \A k \in 1 .. (source - 1) : nodes[k].name # Self
              /\ \A k \in 1 .. (source' - 1) : nodes[k].name # Self
              /\ nodes[source].name = Self /\ nodes[source'].name = Self
              /\ source \in 1 .. Len(nodes) /\ source' \in 1 .. Len(nodes)
          BY <3>1, <4>1, Types DEF IsFirst, TypeInv
        <5>2. \A a, b \in Nat \ {0} : a < b => a \in 1 .. (b - 1)
          OBVIOUS
        <5>3. source \in Nat \ {0} /\ source' \in Nat \ {0}
          BY <4>2, <5>1
        <5> QED
          BY <5>1, <5>2, <5>3
      <4> QED
        BY <4>2, <4>3
    <3>2. CASE source = 1 /\ \A k \in DOMAIN nextHop : nodes[k].name # Self
      BY <1>1, <2>1, <3>2 DEF IsSourceIndex, IsFirst
    <3> QED
      BY <2>1, <3>1, <3>2 DEF SourceInv, IsOwn
  <2>3. j \notin zeroed
    BY <1>0 DEF SourceInv
  <2> QED
    BY <1>3, <2>1, <2>2, <2>3 DEF NoSelfRelay
<1> QED
  BY <1>2, <1>3

LEMMA BeginRouteDijkstra ==
    ASSUME TypeInv, TableInv, SourceInv, NoSelfRelay, BeginRoute
    PROVE  DijkstraInv'
<1>1. /\ DOMAIN nextHop' = DOMAIN nodes
      /\ visited' = {} /\ reset' = 0
      /\ fetcher' = "resetting"
  BY ResizedProperties DEF BeginRoute, TypeInv
<1>2. /\ source' \in DOMAIN nodes
      /\ minDist' = [i \in DOMAIN nodes |-> IF i = source' THEN 0 ELSE IntMax]
      /\ \A i \in DOMAIN nodes : i \in Nat /\ ~(i <= 0)
  BY Types DEF BeginRoute, TypeInv
<1>3. \A j \in DOMAIN nodes \ {source'} : ~Reached(j)'
  BY <1>2, RoutingAssumption DEF Reached
<1>4. SourceFirst' /\ VisitedNearer' /\ VisitedRelaxed'
  BY <1>1, <1>2 DEF SourceFirst, VisitedNearer, VisitedRelaxed
<1>5. ReachedThroughVisited' /\ UnreachedDirect'
  BY <1>1, <1>2, <1>3 DEF ReachedThroughVisited, UnreachedDirect
<1> QED
  BY <1>1, <1>4, <1>5, BeginRouteSelf DEF DijkstraInv, Rounding

LEMMA ResetHopDijkstra ==
    ASSUME TypeInv, TableInv, DijkstraInv, ResetHop
    PROVE  DijkstraInv'
<1>1. /\ reset' = reset + 1 /\ reset \in Nat /\ reset' \in DOMAIN nextHop
      /\ nextHop' = [nextHop EXCEPT ![reset'] = reset']
      /\ DOMAIN nextHop' = DOMAIN nextHop
      /\ Len(nextHop) \in Nat /\ DOMAIN nextHop = 1 .. Len(nextHop)
      /\ Len(nextHop) = Len(nodes)
  BY ResetHopProperties, Types DEF TypeInv, ResetHop
<1>2. /\ fetcher = "resetting" /\ Rounding'
      /\ fetcher' = "resetting" \/ reset' = Len(nodes)
      /\ zeroed' = zeroed \ {reset'}
      /\ UNCHANGED <<nodes, topology, source, minDist, visited>>
  BY DEF ResetHop, Rounding
<1>3. visited = {} /\ \A j \in DOMAIN nextHop \ {source} : ~Reached(j)
  BY <1>2 DEF DijkstraInv, ReachedThroughVisited
<1>4. SourceFirst' /\ VisitedNearer' /\ VisitedRelaxed'
  <2>1. SourceFirst'
    BY <1>1, <1>2, <1>3 DEF SourceFirst, DijkstraInv, TableInv, Rounding
  <2> QED
    BY <1>2, <1>3, <2>1 DEF VisitedNearer, VisitedRelaxed
<1>5. ReachedThroughVisited'
  BY <1>1, <1>2, <1>3 DEF ReachedThroughVisited, Reached
<1>6. UnreachedDirect'
  <2> SUFFICES ASSUME NEW j \in DOMAIN nextHop, ~Reached(j),
                      fetcher' = "resetting" => j <= reset'
               PROVE  nextHop'[j] = j
    BY <1>1, <1>2 DEF UnreachedDirect, Reached
  <2>1. j <= reset'
    BY <1>1, <1>2
  <2>2. CASE j = reset'
    BY <1>1, <2>2
  <2>3. CASE j # reset'
    <3>1. j <= reset
      BY <1>1, <2>1, <2>3
    <3> QED
      BY <1>1, <2>3, <3>1 DEF DijkstraInv, UnreachedDirect
  <2> QED
    BY <2>2, <2>3
<1>7. NoSelfRelay'
  BY <1>1, <1>2 DEF DijkstraInv, NoSelfRelay
<1> QED
  BY <1>2, <1>3, <1>4, <1>5, <1>6, <1>7 DEF DijkstraInv

LEMMA VisitDijkstra ==
    ASSUME TypeInv, TableInv, DijkstraInv,
           NEW u \in DOMAIN nextHop, Visit(u)
    PROVE  DijkstraInv'
<1> DEFINE N == DOMAIN nextHop
<1>1. /\ fetcher = "routing" /\ IsNearest(u)
      /\ minDist' = [j \in N |-> IF Improves(u, j) THEN minDist[u] + topology[u][j]
                                                ELSE minDist[j]]
      /\ nextHop' = [j \in N |-> HopThrough(u, j)]
      /\ visited' = visited \cup {u}
      /\ DOMAIN nextHop' = N
      /\ UNCHANGED <<topology, source>>
  BY DEF Visit
<1>2. /\ IntMax \in Nat \ {0} /\ NoLink \notin Int
      /\ \A j \in N : minDist[j] \in 0 .. IntMax
      /\ \A i, j \in N : topology[i][j] \in Nat \cup {NoLink}
      /\ visited \subseteq N /\ source \in N /\ u \notin visited
      /\ \A j \in N : j \in Nat
      /\ \A j \in N \ visited : minDist[u] <= minDist[j]
  <2>1. /\ IntMax \in Nat \ {0} /\ NoLink \notin Int
        /\ \A j \in N : minDist[j] \in 0 .. IntMax
        /\ \A i, j \in N : topology[i][j] \in Nat \cup {NoLink}
        /\ \A j \in N : j \in Nat
    <3>1. TypeOK
      BY DEF TypeInv
    <3>2. DOMAIN nextHop = 1 .. Len(nextHop)
      BY <3>1, Types
    <3> QED
      BY <3>1, <3>2, Types
  <2>2. visited \subseteq N /\ source \in N
    BY <1>1 DEF TypeInv, TypeOK, TableInv
  <2>3. u \notin visited /\ \A j \in N \ visited : minDist[u] <= minDist[j]
    BY <1>1, <2>1 DEF IsNearest, Unvisited
  <2> QED
    BY <2>1, <2>2, <2>3
<1>3. ASSUME NEW j \in N, Improves(u, j)
      PROVE  /\ j \notin visited' /\ Linked(u, j) /\ topology[u][j] \in Nat
             /\ minDist'[j] = minDist[u] + topology[u][j]
             /\ Reached(u) /\ Reached(j)'
             /\ minDist'[j] < minDist[j] /\ minDist[u] <= minDist'[j]
             /\ u # source => nextHop'[j] = u
             /\ u = source => nextHop'[j] = nextHop[j]
  <2>1. /\ topology[u][j] \in Nat /\ Reached(u)
        /\ minDist[u] + topology[u][j] < minDist[j]
        /\ minDist[u] <= minDist[u] + topology[u][j]
    BY <1>3, ImprovedDistance DEF TypeInv
  <2>2. minDist'[j] = minDist[u] + topology[u][j]
    BY <1>1, <1>3
  <2>3. Reached(j)'
    BY <1>2, <2>1, <2>2 DEF Reached
  <2> QED
    BY <1>1, <1>2, <1>3, <2>1, <2>2, <2>3 DEF Improves, Linked, HopThrough
<1>4. ASSUME NEW j \in N, ~Improves(u, j)
      PROVE  /\ minDist'[j] = minDist[j] /\ nextHop'[j] = nextHop[j]
             /\ Reached(j)' = Reached(j) /\ Before(j)' = Before(j)
  BY <1>1, <1>4 DEF HopThrough, Reached, Before
<1>5. \A v \in visited' : ~Improves(u, v)
  BY <1>1 DEF Improves
<1>6. source \notin visited => u = source
  <2> SUFFICES ASSUME source \notin visited, u # source PROVE FALSE
    OBVIOUS
  <2>1. visited = {} /\ minDist[source] = 0
    BY <1>2 DEF DijkstraInv, SourceFirst, TableInv
  <2>2. minDist[u] = 0
    BY <1>2, <2>1
  <2>3. Reached(u)
    BY <1>2, <2>2 DEF Reached
  <2> QED
    BY <2>1, <2>3 DEF DijkstraInv, ReachedThroughVisited
<1>7. SourceFirst'
  <2>1. minDist[source] = 0
    BY <1>2 DEF DijkstraInv, SourceFirst
  <2>2. ~Improves(u, source)
    BY <1>5, <1>6, <1>1
  <2> QED
    BY <1>1, <1>2, <1>4, <1>6, <2>1, <2>2 DEF SourceFirst
<1>8. VisitedNearer'
  <2> SUFFICES ASSUME NEW v \in visited', NEW j \in N \ visited'
               PROVE  minDist'[v] <= minDist'[j]
    BY <1>1 DEF VisitedNearer
  <2>1. minDist'[v] = minDist[v] /\ minDist[v] <= minDist[u]
    BY <1>1, <1>2, <1>4, <1>5 DEF DijkstraInv, VisitedNearer
  <2>2. minDist[u] <= minDist'[j]
    BY <1>1, <1>2, <1>3, <1>4
  <2>3. minDist'[j] \in Int /\ minDist[u] \in Int /\ minDist[v] \in Int
    BY <1>1, <1>2, <1>3, <1>4
  <2> QED
    BY <2>1, <2>2, <2>3
<1>9. VisitedRelaxed'
  <2> SUFFICES ASSUME NEW v \in visited', NEW j \in N, Reached(v)', Linked(v, j)'
               PROVE  minDist'[j] - minDist'[v] <= topology[v][j]
    BY <1>1 DEF VisitedRelaxed
  <2>1. v \in N /\ minDist'[v] = minDist[v] /\ Reached(v) /\ Linked(v, j)
    BY <1>1, <1>2, <1>4, <1>5 DEF Linked
  <2>2. topology[v][j] \in Nat /\ minDist[v] \in Nat /\ minDist[j] \in Nat
    BY <1>2, <2>1 DEF Linked
  <2>3. minDist'[j] \in Nat /\ minDist'[j] <= minDist[j]
    BY <1>2, <1>3, <1>4, <2>2
  <2>4. CASE v \in visited
    <3>1. minDist[j] - minDist[v] <= topology[v][j]
      BY <2>1, <2>4 DEF DijkstraInv, VisitedRelaxed
    <3> QED
      BY <2>1, <2>2, <2>3, <3>1
  <2>5. CASE v = u
    <3>1. CASE Improves(u, j)
      BY <1>3, <2>1, <2>2, <2>5, <3>1
    <3>2. CASE j \in visited
      <4>1. minDist[j] <= minDist[u]
        BY <1>2, <3>2 DEF DijkstraInv, VisitedNearer
      <4> QED
        BY <2>1, <2>2, <2>3, <2>5, <4>1
    <3>3. CASE j = u
      BY <2>1, <2>2, <2>5, <3>3
    <3>4. CASE ~Improves(u, j) /\ j \notin visited \cup {u}
      BY <1>4, <2>1, <2>2, <2>5, <3>4 DEF Improves, Linked
    <3> QED
      BY <3>1, <3>2, <3>3, <3>4
  <2> QED
    BY <1>1, <2>4, <2>5
<1>10. ReachedThroughVisited'
  <2> SUFFICES ASSUME NEW j \in N \ {source}, Reached(j)'
               PROVE  /\ Before(j)' # j
                      /\ Before(j)' \in visited'
                      /\ Linked(Before(j)', j)
                      /\ minDist'[j] = minDist'[Before(j)'] + topology[Before(j)'][j]
    BY <1>1 DEF ReachedThroughVisited, Linked
  <2>1. CASE Improves(u, j)
    <3>1. Before(j)' = u
      <4>1. CASE u = source
        <5>1. visited = {}
          BY <1>2, <4>1 DEF DijkstraInv, SourceFirst
        <5>2. ~Reached(j)
          BY <5>1 DEF DijkstraInv, ReachedThroughVisited
        <5>3. nextHop[j] = j
          BY <1>1, <5>2 DEF DijkstraInv, UnreachedDirect
        <5> QED
          BY <1>1, <1>3, <2>1, <4>1, <5>3 DEF Before
      <4>2. CASE u # source
        BY <1>1, <1>3, <2>1, <4>2 DEF Before, Improves
      <4> QED
        BY <4>1, <4>2
    <3>2. minDist'[u] = minDist[u]
      BY <1>1, <1>4, <1>5
    <3> QED
      BY <1>1, <1>3, <2>1, <3>1, <3>2 DEF Improves
  <2>2. CASE ~Improves(u, j)
    <3>1. Reached(j) /\ Before(j)' = Before(j) /\ minDist'[j] = minDist[j]
      BY <1>4, <2>2
    <3>2. /\ Before(j) # j /\ Before(j) \in visited /\ Linked(Before(j), j)
          /\ minDist[j] = minDist[Before(j)] + topology[Before(j)][j]
      BY <3>1 DEF DijkstraInv, ReachedThroughVisited
    <3>3. minDist'[Before(j)] = minDist[Before(j)]
      BY <1>1, <1>2, <1>4, <1>5, <3>2
    <3> QED
      BY <1>1, <3>1, <3>2, <3>3
  <2> QED
    BY <2>1, <2>2
<1>11. UnreachedDirect'
  BY <1>1, <1>3, <1>4 DEF DijkstraInv, UnreachedDirect
<1>12. NoSelfRelay'
  <2>1. zeroed' = zeroed
    BY DEF Visit
  <2> QED
    BY <1>1, <1>3, <1>4, <2>1 DEF DijkstraInv, NoSelfRelay, HopThrough
<1>13. /\ fetcher' # "resetting"
       /\ ~Rounding' => visited' = DOMAIN nextHop'
  BY <1>1 DEF Visit, Rounding
<1> QED
  BY <1>7, <1>8, <1>9, <1>10, <1>11, <1>12, <1>13 DEF DijkstraInv

LEMMA DijkstraStep ==
    ASSUME TypeInv, TableInv, SourceInv, DijkstraInv, [Next]_vars
    PROVE  DijkstraInv'
<1>1. CASE BeginRoute
  BY <1>1, BeginRouteDijkstra DEF DijkstraInv
<1>2. CASE ResetHop
  BY <1>2, ResetHopDijkstra
<1>3. ASSUME NEW u \in DOMAIN nextHop, Visit(u)
      PROVE  DijkstraInv'
  BY <1>3, VisitDijkstra
<1>4. CASE ReadBeyondNextHop
  <2>1. ~Rounding
    BY <1>4 DEF ReadBeyondNextHop, TableInv
  <2>2. UNCHANGED tableVars /\ fetcher' \in {fetcher, "crashed"}
    BY <1>4 DEF ReadBeyondNextHop, ReadGarbage
  <2> QED
    BY <2>1, <2>2, DijkstraKept DEF Rounding
<1>5. CASE AddNode \/ RouteWithoutNodes
  <2>1. /\ UNCHANGED tableVars
        /\ ~Rounding /\ fetcher' \in {"fetching", "pushing", "crashed"}
    BY <1>5 DEF AddNode, RefreshNode, BeginPush, EndPush, RouteWithoutNodes, Rounding
  <2> QED
    BY <2>1, DijkstraKept DEF Rounding
<1>6. CASE (\E name \in ListedNames : FindNode(name)) \/ GetNextHop \/ UNCHANGED vars
  <2>1. UNCHANGED tableVars /\ fetcher' = fetcher
    BY <1>6 DEF FindNode, GetNextHop, vars, tableVars
  <2> QED
    BY <2>1, DijkstraKept
<1>7. CASE ReadDuringMove
  <2>1. /\ UNCHANGED tableVars
        /\ ~Rounding /\ fetcher' \in {fetcher, "crashed"}
    BY <1>7 DEF ReadDuringMove, ReadGarbage, Rounding
  <2> QED
    BY <2>1, DijkstraKept DEF Rounding
<1> QED
  BY <1>1, <1>2, <1>3, <1>4, <1>5, <1>6, <1>7
     DEF Next, UpdateRoutingTable, VisitNearest, SendMessage
-----------------------------------------------------------------------------
(* The theorems.                                                           *)

LEMMA Inductive == Spec => []IInv
<1>1. IInv /\ [Next]_vars => IInv'
  BY TypeStep, TableStep, SourceStep, DijkstraStep DEF IInv
<1> QED
  BY <1>1, InitInv, PTL DEF Spec

(***************************************************************************)
(* The variables of the two threads keep their types.                      *)
(***************************************************************************)
THEOREM TypeCorrect == Spec => []TypeOK
<1>1. IInv => TypeOK
  BY DEF IInv, TypeInv
<1> QED
  BY <1>1, Inductive, PTL

(***************************************************************************)
(* Whatever the registry listed and however the list grew, a table that    *)
(* route() has completed is a tree of shortest paths.                      *)
(***************************************************************************)
THEOREM RouteIsShortest == Spec => []ShortestTree
<1>1. IInv => ShortestTree
  <2> SUFFICES ASSUME IInv, Routed PROVE ShortestTree
    BY DEF ShortestTree
  <2>1. /\ visited = DOMAIN nextHop /\ nextHop # <<>>
        /\ minDist[source] = 0
    BY DEF Routed, Rounding, IInv, DijkstraInv, SourceFirst
  <2>2. \A i, j \in DOMAIN nextHop : Reached(i) /\ Linked(i, j) =>
           minDist[j] - minDist[i] <= topology[i][j]
    BY <2>1 DEF IInv, DijkstraInv, VisitedRelaxed
  <2> QED
    BY <2>1, <2>2 DEF ShortestTree, IInv, DijkstraInv, ReachedThroughVisited
<1> QED
  BY <1>1, Inductive, PTL

(***************************************************************************)
(* No entry that route() has written, in this round or an earlier one,     *)
(* ever relays through the source; only a zero that resize has just added  *)
(* does, and only in a process that is the first of its own list.          *)
(***************************************************************************)
THEOREM NeverSelfRelay == Spec => []NoSelfRelay
<1>1. IInv => NoSelfRelay
  BY DEF IInv, DijkstraInv
<1> QED
  BY <1>1, Inductive, PTL

(***************************************************************************)
(* Whatever was listed meanwhile, and in the middle of resize and reset as *)
(* well: an entry of the table, and one read from it earlier, is a node.   *)
(***************************************************************************)
THEOREM HopsStayInRange == Spec => []HopsInRange
<1>1. IInv => HopsInRange
  BY DEF IInv, TableInv, HopsInRange
<1> QED
  BY <1>1, Inductive, PTL

(***************************************************************************)
(* addNode never moves a node of the list, nor renames it.                 *)
(***************************************************************************)
THEOREM IndicesStable == Spec => IndexStable
<1> DEFINE Kept == \A i \in DOMAIN nodes :
                     /\ i \in DOMAIN nodes'
                     /\ nodes'[i].name = nodes[i].name
                     /\ nodes'[i].addr = nodes[i].addr
                     /\ nodes'[i].type = nodes[i].type
<1>1. IInv /\ [Next]_vars => [Kept]_vars
  BY NodesKept DEF IInv
<1> QED
  BY <1>1, Inductive, PTL DEF Spec, IndexStable

(***************************************************************************)
(* When route() returns, the table is about the list as it is then.        *)
(***************************************************************************)
THEOREM TablesAreFresh == Spec => FreshTable
<1> DEFINE Fresh == fetcher = "routing" /\ fetcher' = "fetching" =>
                      /\ DOMAIN nextHop' = DOMAIN nodes'
                      /\ \A i, j \in DOMAIN nodes' :
                           topology'[i][j] = Weight(nodes'[i], nodes'[j])
                      /\ Knows(Self)' => nodes'[source'].name = Self
<1>1. ASSUME IInv, [Next]_vars PROVE [Fresh]_vars
  <2> SUFFICES ASSUME fetcher = "routing", fetcher' = "fetching" PROVE Fresh
    OBVIOUS
  <2>1. PICK u \in DOMAIN nextHop : Visit(u)
    BY <1>1 DEF Next, AddNode, UpdateRoutingTable, VisitNearest, SendMessage,
                BeginPush, EndPush, RefreshNode, BeginRoute, RouteWithoutNodes,
                ResetHop, FindNode, GetNextHop, ReadBeyondNextHop, ReadGarbage,
                ReadDuringMove, vars
  <2>2. /\ UNCHANGED <<nodes, topology, source>>
        /\ DOMAIN nextHop' = DOMAIN nextHop
    BY <2>1 DEF Visit
  <2>3. Knows(Self)' = Knows(Self)
    BY <2>2 DEF Knows
  <2>4. \A i, j \in DOMAIN nodes : topology[i][j] = Weight(nodes[i], nodes[j])
    BY <1>1 DEF IInv, TableInv, Topology, Rounding
  <2> QED
    BY <1>1, <2>2, <2>3, <2>4 DEF IInv, TableInv, Rounding
<1> QED
  BY <1>1, Inductive, PTL DEF Spec, FreshTable
-----------------------------------------------------------------------------
(* Ground stations are relayed.                                            *)

(* The longest link there is.                                              *)
Farthest == Penalised(MaxDistance + GroundPenalty)

(***************************************************************************)
(* The hypothesis of the theorem: a path of two links fits an int.  With a *)
(* 32-bit int it allows nodes 30,000 units apart.  Without it a satellite  *)
(* may be in the table and every path through it too long to be stored.    *)
(***************************************************************************)
LinksFit == 2 * Farthest < IntMax

(* A heavier link is not made lighter by the penalty.                      *)
LEMMA PenaltyMonotone ==
    ASSUME NEW v \in Nat, NEW w \in Nat, v <= w
    PROVE  Penalised(v) <= Penalised(w) /\ Penalised(w) \in Nat
<1>1. CASE v > PenaltyFrom
  <2> DEFINE a == v - PenaltyFrom
             b == w - PenaltyFrom
  <2>1. a \in Nat /\ b \in Nat /\ a <= b /\ w > PenaltyFrom
    BY <1>1 DEF PenaltyFrom
  <2> HIDE DEF a, b
  <2>2. a * a <= b * b /\ b * b \in Nat
    BY <2>1
  <2> QED
    BY <1>1, <2>1, <2>2 DEF Penalised, Square, PenaltyFrom, a, b
<1>2. CASE v <= PenaltyFrom /\ w > PenaltyFrom
  <2>1. (w - PenaltyFrom) * (w - PenaltyFrom) \in Nat
    BY <1>2 DEF PenaltyFrom
  <2> QED
    BY <1>2, <2>1 DEF Penalised, Square, PenaltyFrom
<1>3. CASE v <= PenaltyFrom /\ w <= PenaltyFrom
  BY <1>3 DEF Penalised, PenaltyFrom
<1> QED
  BY <1>1, <1>2, <1>3 DEF PenaltyFrom

(* Exactly the pairs of ground stations have no link; no link is longer    *)
(* than Farthest.                                                          *)
LEMMA WeightBound ==
    ASSUME NEW a \in Entries, NEW b \in Entries
    PROVE  /\ Weight(a, b) = NoLink <=> IsGround(a) /\ IsGround(b)
           /\ Weight(a, b) # NoLink => Weight(a, b) <= Farthest
           /\ Farthest \in Nat
<1> DEFINE len == Length(a, b)
           sum == len + (IF IsGround(a) \/ IsGround(b) THEN GroundPenalty ELSE 0)
<1>1. len \in Nat /\ len <= MaxDistance
  <2> DEFINE n == SquaredUnits(a.coords[1], b.coords[1])
                    + SquaredUnits(a.coords[2], b.coords[2])
             K == {k \in 1 .. MaxDistance : Square(k) <= n}
  <2>1. IsFiniteSet(1 .. MaxDistance) /\ Cardinality(1 .. MaxDistance) = MaxDistance
    BY FS_Interval, LinkAssumption
  <2>2. K \subseteq 1 .. MaxDistance
    OBVIOUS
  <2>3. IsFiniteSet(K) /\ Cardinality(K) <= MaxDistance
    BY <2>1, <2>2, FS_Subset
  <2>4. len = Cardinality(K)
    BY DEF Length, IntSqrt
  <2> QED
    BY <2>3, <2>4, FS_CardinalityType
<1>2. /\ sum \in Nat /\ MaxDistance + GroundPenalty \in Nat
      /\ sum <= MaxDistance + GroundPenalty
  BY <1>1, LinkAssumption DEF GroundPenalty
<1>3. Penalised(sum) <= Farthest /\ Farthest \in Nat
  BY <1>2, PenaltyMonotone DEF Farthest
<1>4. CASE IsGround(a) /\ IsGround(b)
  BY <1>3, <1>4 DEF Weight
<1>5. CASE ~(IsGround(a) /\ IsGround(b))
  <2>1. Weight(a, b) = Penalised(sum)
    BY <1>5 DEF Weight
  <2>2. Weight(a, b) # NoLink
    BY <1>5, <2>1, WeightType, LinkAssumption, <1>2, PenaltyMonotone
  <2> QED
    BY <1>3, <1>5, <2>1, <2>2
<1> QED
  BY <1>4, <1>5

(***************************************************************************)
(* The matrix tells the two kinds of nodes apart, also after the list has  *)
(* grown and nodes have moved since route() read it.                       *)
(***************************************************************************)
LinkInv ==
    \A i, j \in DOMAIN nextHop :
        /\ ~Linked(i, j) <=> IsGround(nodes[i]) /\ IsGround(nodes[j])
        /\ Linked(i, j) => topology[i][j] <= Farthest

LEMMA LinkStep ==
    ASSUME IInv, LinkInv, [Next]_vars
    PROVE  LinkInv'
<1>1. /\ TypeOK
      /\ DOMAIN nextHop \subseteq DOMAIN nodes
      /\ \A i \in DOMAIN nodes : nodes'[i].type = nodes[i].type
  BY NodesKept, Prefix DEF IInv, TypeInv, TableInv
<1>2. CASE BeginRoute
  <2>1. /\ DOMAIN nextHop' = DOMAIN nodes
        /\ topology' = Topology
        /\ UNCHANGED nodes
    BY <1>1, <1>2, ResizedProperties DEF BeginRoute
  <2>2. \A i \in DOMAIN nodes : nodes[i] \in Entries
    BY <1>1, Types
  <2> QED
    BY <2>1, <2>2, WeightBound DEF LinkInv, Linked, Topology
<1>3. CASE UNCHANGED topology /\ DOMAIN nextHop' = DOMAIN nextHop
  BY <1>1, <1>3 DEF LinkInv, Linked, IsGround
<1> QED
  BY <1>2, <1>3
     DEF Next, AddNode, RefreshNode, BeginPush, EndPush, UpdateRoutingTable,
         VisitNearest, Visit, ResetHop, SendMessage, RouteWithoutNodes, FindNode,
         GetNextHop, ReadBeyondNextHop, ReadDuringMove, vars, tableVars

(***************************************************************************)
(* Whatever the registry listed, as long as a path of two links fits an    *)
(* int: a ground station whose table lists a satellite hands what is for   *)
(* another ground station to a satellite.                                  *)
(***************************************************************************)
THEOREM GroundsAreRelayed ==
    ASSUME LinksFit PROVE Spec => []GroundNeedsRelay
<1>1. Init => LinkInv
  <2>1. DOMAIN (<<>>) = {}
    OBVIOUS
  <2> QED
    BY <2>1 DEF Init, LinkInv
<1>2. IInv /\ LinkInv /\ [Next]_vars => LinkInv'
  BY LinkStep
<1>3. ASSUME IInv, LinkInv PROVE GroundNeedsRelay
  <2> SUFFICES ASSUME Routed, IsGround(nodes[source]),
                      NEW s \in DOMAIN nextHop, ~IsGround(nodes[s]),
                      NEW j \in DOMAIN nextHop \ {source}, IsGround(nodes[j])
               PROVE  ~IsGround(nodes[nextHop[j]])
    BY DEF GroundNeedsRelay
  <2>1. /\ source \in DOMAIN nextHop /\ minDist[source] = 0
        /\ visited = DOMAIN nextHop
    BY <1>3 DEF IInv, DijkstraInv, SourceFirst, TableInv, Routed, Rounding
  <2>2. /\ \A k \in DOMAIN nextHop : minDist[k] \in 0 .. IntMax
        /\ \A k, l \in DOMAIN nextHop : topology[k][l] \in Nat \cup {NoLink}
        /\ IntMax \in Nat \ {0} /\ NoLink \notin Int
    BY <1>3, Types DEF IInv, TypeInv
  <2>3. /\ Farthest \in Nat
        /\ 2 * Farthest < IntMax
    BY LinkAssumption, PenaltyMonotone DEF LinksFit, Farthest, GroundPenalty
  <2>4. \A k, l \in DOMAIN nextHop : Reached(k) /\ Linked(k, l) =>
          minDist[l] - minDist[k] <= topology[k][l]
    BY <1>3, <2>1 DEF IInv, DijkstraInv, VisitedRelaxed
  <2>5. minDist[s] <= Farthest /\ Reached(s)
    <3>1. Linked(source, s) /\ topology[source][s] <= Farthest
      BY <1>3, <2>1 DEF LinkInv
    <3>2. Reached(source)
      BY <2>1, <2>2 DEF Reached
    <3>3. topology[source][s] \in Nat
      BY <2>1, <2>2, <3>1 DEF Linked
    <3>4. minDist[s] - minDist[source] <= topology[source][s]
      BY <2>1, <2>4, <3>1, <3>2
    <3> QED
      BY <2>1, <2>2, <2>3, <3>1, <3>3, <3>4 DEF Reached
  <2>6. Reached(j)
    <3>1. Linked(s, j) /\ topology[s][j] <= Farthest
      BY <1>3 DEF LinkInv
    <3>2. topology[s][j] \in Nat
      BY <2>2, <3>1 DEF Linked
    <3>3. minDist[j] - minDist[s] <= topology[s][j]
      BY <2>4, <2>5, <3>1
    <3> QED
      BY <2>2, <2>3, <2>5, <3>1, <3>2, <3>3 DEF Reached
  <2>7. Before(j) \in DOMAIN nextHop /\ Linked(Before(j), j)
    BY <1>3, <2>1, <2>6 DEF IInv, DijkstraInv, ReachedThroughVisited
  <2>8. ~IsGround(nodes[Before(j)])
    BY <1>3, <2>7 DEF LinkInv
  <2>9. nextHop[j] = Before(j)
    BY <2>8 DEF Before
  <2> QED
    BY <2>8, <2>9
<1> QED
  BY <1>1, <1>2, <1>3, Inductive, PTL DEF Spec
-----------------------------------------------------------------------------
(* Shortest paths: what route() computes is what Within defines by         *)
(* recursion on the number of links.  First of walks, whoever computes     *)
(* them.                                                                   *)

Matrix(n) == [1 .. n -> [1 .. n -> Nat \cup {NoLink}]]
Distances(n) == [1 .. n -> 0 .. IntMax]

(* One more link makes no distance longer, and as short as a link allows.  *)
LEMMA ExtendedProperties ==
    ASSUME NEW n \in Nat, NEW matrix \in Matrix(n), NEW d \in Distances(n)
    PROVE  /\ Extended(matrix, d) \in Distances(n)
           /\ \A i \in 1 .. n :
                /\ Extended(matrix, d)[i] <= d[i]
                /\ \A h \in 1 .. n :
                     matrix[h][i] # NoLink /\ matrix[h][i] < IntMax - d[h]
                       => Extended(matrix, d)[i] <= d[h] + matrix[h][i]
                /\ \/ Extended(matrix, d)[i] = d[i]
                   \/ \E h \in 1 .. n :
                        /\ matrix[h][i] # NoLink /\ matrix[h][i] < IntMax - d[h]
                        /\ Extended(matrix, d)[i] = d[h] + matrix[h][i]
<1> DEFINE Steps(i) == {h \in 1 .. n : matrix[h][i] # NoLink /\ matrix[h][i] < IntMax - d[h]}
           Sums(i) == {d[h] + matrix[h][i] : h \in Steps(i)} \cup {d[i]}
           e == Extended(matrix, d)
<1>1. /\ IntMax \in Nat
      /\ \A h, i \in 1 .. n : matrix[h][i] # NoLink => matrix[h][i] \in Nat
      /\ \A i \in 1 .. n : d[i] \in 0 .. IntMax
  BY RoutingAssumption DEF Matrix, Distances
<1>2. e = [i \in 1 .. n |-> Min(Sums(i))]
  BY DEF Extended, Matrix
<1>3. ASSUME NEW i \in 1 .. n
      PROVE  /\ Sums(i) \subseteq 0 .. IntMax
             /\ e[i] \in Sums(i)
             /\ \A x \in Sums(i) : e[i] <= x
  <2>1. \A h \in Steps(i) : h \in 1 .. n /\ d[h] + matrix[h][i] \in 0 .. IntMax
    BY <1>1
  <2>2. Sums(i) \subseteq 0 .. IntMax
    BY <1>1, <2>1
  <2> HIDE DEF e, Steps
  <2>3. e[i] = Min(Sums(i)) /\ d[i] \in Sums(i)
    BY <1>2
  <2> HIDE DEF Sums
  <2>4. \E x \in Sums(i) : \A y \in Sums(i) : x <= y
    BY <2>2, <2>3, LeastNumber
  <2> QED
    BY <2>2, <2>3, <2>4 DEF Min
<1>4. e \in Distances(n)
  <2>1. \A i \in 1 .. n : e[i] \in 0 .. IntMax
    BY <1>3
  <2> HIDE DEF e, Sums
  <2> QED
    BY <1>2, <2>1 DEF Distances
<1> HIDE DEF e
<1>5. ASSUME NEW i \in 1 .. n
      PROVE  /\ e[i] <= d[i]
             /\ \A h \in 1 .. n :
                  matrix[h][i] # NoLink /\ matrix[h][i] < IntMax - d[h]
                    => e[i] <= d[h] + matrix[h][i]
             /\ \/ e[i] = d[i]
                \/ \E h \in 1 .. n :
                     /\ matrix[h][i] # NoLink /\ matrix[h][i] < IntMax - d[h]
                     /\ e[i] = d[h] + matrix[h][i]
  BY <1>3
<1> QED
  BY <1>4, <1>5 DEF e

(* No link at all: only s itself has a distance.                           *)
None(n, s) == [i \in 1 .. n |-> IF i = s THEN 0 ELSE IntMax]

(* The recurrence has a solution, which Within is therefore, and all its   *)
(* values are distances.                                                   *)
LEMMA WithinRecurrence ==
    ASSUME NEW n \in Nat, NEW matrix \in Matrix(n), NEW s
    PROVE  /\ Within(matrix, s)[0] = None(n, s)
           /\ \A k \in 1 .. n :
                Within(matrix, s)[k] = Extended(matrix, Within(matrix, s)[k - 1])
           /\ \A k \in 0 .. n : Within(matrix, s)[k] \in Distances(n)
<1> DEFINE base == None(n, s)
           step == [k \in 1 .. n |-> [d \in Distances(n) |-> Extended(matrix, d)]]
           Solves(w) ==
             w = [k \in 0 .. n |-> IF k = 0 THEN base ELSE Extended(matrix, w[k - 1])]
           within == CHOOSE w : Solves(w)
<1>1. base \in Distances(n)
  BY RoutingAssumption DEF None, Distances
<1>2. \A d \in Distances(n) : Extended(matrix, d) \in Distances(n)
  BY ExtendedProperties
<1>3. IsStep(step, n, Distances(n))
  BY <1>2 DEF IsStep
<1> HIDE DEF base
<1>4. PICK f \in [0 .. n -> Distances(n)] :
        f[0] = base /\ \A k \in 1 .. n : f[k] = step[k][f[k - 1]]
  <2> HIDE DEF step
  <2> QED
    BY <1>1, <1>3, RecursiveFunction
<1>5. Solves(f)
  <2>1. ASSUME NEW k \in 0 .. n, k # 0 PROVE f[k] = Extended(matrix, f[k - 1])
    <3>1. k \in 1 .. n /\ f[k - 1] \in Distances(n)
      BY <2>1
    <3> QED
      BY <1>4, <3>1
  <2> QED
    BY <1>4, <2>1
<1>6. Solves(within)
  <2> HIDE DEF Solves
  <2> QED
    BY <1>5
<1> HIDE DEF within
<1>7. within[0] = base /\ \A k \in 1 .. n : within[k] = Extended(matrix, within[k - 1])
  BY <1>6
<1>8. DOMAIN matrix = 1 .. n /\ Len(matrix) = n
  BY FunctionIsSeq DEF Matrix
<1>9. Within(matrix, s) = within
  BY <1>8 DEF Within, None, within, base
<1>10. \A k \in 0 .. n : within[k] \in Distances(n)
  <2> DEFINE T == {k \in 0 .. n : within[k] \in Distances(n)}
  <2>1. 0 \in T /\ \A k \in 1 .. n : k - 1 \in T => k \in T
    BY <1>1, <1>2, <1>7
  <2> HIDE DEF T
  <2>2. \A k \in 0 .. n : k \in T
    BY <2>1, UpTo
  <2> QED
    BY <2>2 DEF T
<1> QED
  BY <1>7, <1>9, <1>10 DEF base

(* What no link makes shorter no walk does.                                *)
LEMMA NoWalkIsShorter ==
    ASSUME NEW n \in Nat, NEW matrix \in Matrix(n), NEW s \in 1 .. n,
           NEW d \in Distances(n), d[s] = 0,
           \A h, i \in 1 .. n : d[h] < IntMax /\ matrix[h][i] # NoLink
                                  => d[i] - d[h] <= matrix[h][i],
           NEW k \in 0 .. n
    PROVE  \A i \in 1 .. n : d[i] <= Within(matrix, s)[k][i]
<1> DEFINE w == Within(matrix, s)
           T == {m \in 0 .. n : \A i \in 1 .. n : d[i] <= w[m][i]}
<1>1. /\ w[0] = None(n, s)
      /\ \A m \in 1 .. n : w[m] = Extended(matrix, w[m - 1])
      /\ \A m \in 0 .. n : w[m] \in Distances(n)
  BY WithinRecurrence
<1>2. /\ IntMax \in Nat
      /\ \A h, i \in 1 .. n : matrix[h][i] # NoLink => matrix[h][i] \in Nat
      /\ \A i \in 1 .. n : d[i] \in 0 .. IntMax
  BY RoutingAssumption DEF Matrix, Distances
<1> HIDE DEF w
<1>3. 0 \in T
  <2>1. \A j \in 1 .. n : d[j] <= None(n, s)[j]
    BY <1>2 DEF None
  <2> QED
    BY <1>1, <2>1
<1>4. ASSUME NEW m \in 1 .. n, m - 1 \in T
      PROVE  m \in T
  <2> SUFFICES ASSUME NEW i \in 1 .. n PROVE d[i] <= w[m][i]
    OBVIOUS
  <2>1. m - 1 \in 0 .. n /\ w[m - 1] \in Distances(n)
    BY <1>1
  <2>2. \A j \in 1 .. n : d[j] <= w[m - 1][j] /\ w[m - 1][j] \in 0 .. IntMax
    BY <1>4, <2>1 DEF Distances
  <2>3. \/ w[m][i] = w[m - 1][i]
        \/ \E h \in 1 .. n :
             /\ matrix[h][i] # NoLink /\ matrix[h][i] < IntMax - w[m - 1][h]
             /\ w[m][i] = w[m - 1][h] + matrix[h][i]
    BY <1>1, <2>1, ExtendedProperties
  <2>4. ASSUME NEW h \in 1 .. n,
               matrix[h][i] # NoLink, matrix[h][i] < IntMax - w[m - 1][h],
               w[m][i] = w[m - 1][h] + matrix[h][i]
        PROVE  d[i] <= w[m][i]
    <3>1. /\ matrix[h][i] \in Nat /\ d[h] \in 0 .. IntMax /\ d[i] \in 0 .. IntMax
          /\ w[m - 1][h] \in 0 .. IntMax /\ d[h] <= w[m - 1][h]
      BY <1>2, <2>2, <2>4
    <3>2. d[h] < IntMax
      BY <1>2, <2>4, <3>1
    <3>3. d[i] - d[h] <= matrix[h][i]
      BY <2>4, <3>2
    <3> QED
      BY <2>4, <3>1, <3>3
  <2> QED
    BY <2>2, <2>3, <2>4
<1> HIDE DEF T
<1>5. \A m \in 0 .. n : m \in T
  BY <1>3, <1>4, UpTo
<1> QED
  BY <1>5 DEF T, w

-----------------------------------------------------------------------------
(* The walks and the table.                                                *)

(***************************************************************************)
(* After c visits no distance is below the length of the shortest walk of  *)
(* at most c links: a visit adds one link to a walk it has found before.   *)
(***************************************************************************)
WalkInv ==
    \A j \in DOMAIN nextHop :
        Within(topology, source)[Cardinality(visited)][j] <= minDist[j]

(* n indices are a set of n elements.                                      *)
LEMMA Indices ==
    ASSUME NEW n \in Nat
    PROVE  IsFiniteSet(1 .. n) /\ Cardinality(1 .. n) = n
BY FS_Interval

(* The table in the terms of the lemmas above.                             *)
LEMMA TableTypes ==
    ASSUME TypeOK
    PROVE  /\ Len(nextHop) \in Nat
           /\ DOMAIN nextHop = 1 .. Len(nextHop)
           /\ topology \in Matrix(Len(nextHop))
           /\ Len(topology) = Len(nextHop)
           /\ minDist \in Distances(Len(nextHop))
           /\ IsFiniteSet(DOMAIN nextHop)
           /\ Cardinality(DOMAIN nextHop) = Len(nextHop)
           /\ IsFiniteSet(visited)
           /\ Cardinality(visited) \in 0 .. Len(nextHop)
<1> DEFINE n == Len(nextHop)
<1>1. n \in Nat /\ DOMAIN nextHop = 1 .. n
  BY Types
<1>2. topology \in Matrix(n) /\ minDist \in Distances(n)
  BY <1>1 DEF TypeOK, Matrix, Distances
<1>3. Len(topology) = n
  BY <1>1, <1>2, FunctionIsSeq DEF Matrix
<1>4. IsFiniteSet(1 .. n) /\ Cardinality(1 .. n) = n
  BY <1>1, Indices
<1>5. visited \subseteq 1 .. n
  BY <1>1 DEF TypeOK
<1>6. IsFiniteSet(visited) /\ Cardinality(visited) <= n
  BY <1>4, <1>5, FS_Subset
<1>7. Cardinality(visited) \in Nat
  BY <1>6, FS_CardinalityType
<1> QED
  BY <1>1, <1>2, <1>3, <1>4, <1>6, <1>7

(* route() starts with what no link at all reaches.                        *)
LEMMA BeginRouteWalk ==
    ASSUME TypeInv, BeginRoute, TypeOK'
    PROVE  WalkInv'
<1> DEFINE n == Len(nextHop')
<1>1. n \in Nat /\ DOMAIN nextHop' = 1 .. n /\ topology' \in Matrix(n)
  <2>1. DOMAIN nextHop' = DOMAIN nodes /\ nextHop' \in Seq(Nat)
    BY ResizedProperties DEF BeginRoute, TypeInv
  <2>2. n \in Nat /\ DOMAIN nextHop' = 1 .. n
    BY <2>1, LenProperties
  <2> QED
    BY <2>2 DEF TypeOK, Matrix
<1>2. Cardinality(visited') = 0
  BY FS_EmptySet DEF BeginRoute
<1>3. Within(topology', source')[0] = None(n, source')
  BY <1>1, WithinRecurrence
<1>4. \A j \in 1 .. n : None(n, source')[j] <= minDist'[j]
  <2>1. minDist' = [i \in 1 .. n |-> IF i = source' THEN 0 ELSE IntMax]
    BY <1>1, ResizedProperties DEF BeginRoute, TypeInv
  <2> QED
    BY <2>1, RoutingAssumption DEF None
<1> QED
  BY <1>1, <1>2, <1>3, <1>4 DEF WalkInv

(* A visit goes one link further, from one node only.                      *)
LEMMA VisitWalk ==
    ASSUME TypeInv, WalkInv, NEW u \in DOMAIN nextHop, Visit(u)
    PROVE  WalkInv'
<1> DEFINE n == Len(nextHop)
           c == Cardinality(visited)
           w == Within(topology, source)
<1>1. /\ n \in Nat /\ DOMAIN nextHop = 1 .. n
      /\ topology \in Matrix(n) /\ minDist \in Distances(n)
      /\ c \in 0 .. n
      /\ IsFiniteSet(visited)
  BY TableTypes DEF TypeInv
<1>2. c + 1 \in 1 .. n /\ Cardinality(visited') = c + 1
  <2>1. visited' = visited \cup {u} /\ u \notin visited
    BY DEF Visit, IsNearest, Unvisited
  <2>2. IsFiniteSet(visited') /\ Cardinality(visited') = c + 1
    BY <1>1, <2>1, FS_AddElement
  <2>3. visited' \subseteq 1 .. n
    BY <1>1, <2>1 DEF TypeInv, TypeOK
  <2>4. IsFiniteSet(1 .. n) /\ Cardinality(1 .. n) = n
    BY <1>1, Indices
  <2>5. Cardinality(visited') <= n
    BY <2>3, <2>4, FS_Subset
  <2> QED
    BY <1>1, <2>2, <2>5
<1>3. w[c + 1] = Extended(topology, w[c]) /\ w[c] \in Distances(n)
  BY <1>1, <1>2, WithinRecurrence
<1>4. /\ \A i \in 1 .. n : w[c + 1][i] <= w[c][i]
      /\ \A h, i \in 1 .. n :
           topology[h][i] # NoLink /\ topology[h][i] < IntMax - w[c][h]
             => w[c + 1][i] <= w[c][h] + topology[h][i]
      /\ w[c + 1] \in Distances(n)
  BY <1>1, <1>3, ExtendedProperties
<1>5. /\ IntMax \in Nat
      /\ \A i \in 1 .. n : /\ w[c][i] \in Nat /\ w[c + 1][i] \in Nat
                           /\ minDist[i] \in 0 .. IntMax
                           /\ w[c][i] <= minDist[i]
  <2>1. \A i \in 1 .. n : w[c][i] <= minDist[i]
    BY <1>1 DEF WalkInv
  <2> HIDE DEF n, c, w
  <2> QED
    BY <1>1, <1>3, <1>4, <2>1, RoutingAssumption DEF Distances
<1> HIDE DEF n, c, w
<1>6. ASSUME NEW j \in 1 .. n
      PROVE  w[c + 1][j] <= minDist'[j]
  <2>1. CASE Improves(u, j)
    <3>1. /\ topology[u][j] \in Nat /\ topology[u][j] # NoLink
          /\ topology[u][j] < minDist[j] - minDist[u]
          /\ minDist'[j] = minDist[u] + topology[u][j]
      BY <1>1, <2>1, ImprovedDistance DEF Improves, Visit, TypeInv
    <3>2. u \in 1 .. n
      BY <1>1
    <3>3. topology[u][j] < IntMax - w[c][u]
      BY <1>5, <3>1, <3>2
    <3>4. w[c + 1][j] <= w[c][u] + topology[u][j]
      BY <1>4, <3>1, <3>2, <3>3
    <3> QED
      BY <1>5, <3>1, <3>2, <3>4
  <2>2. CASE ~Improves(u, j)
    <3>1. minDist'[j] = minDist[j]
      BY <1>1, <2>2 DEF Visit
    <3> QED
      BY <1>4, <1>5, <3>1
  <2> QED
    BY <2>1, <2>2
<1>7. /\ DOMAIN nextHop' = DOMAIN nextHop
      /\ UNCHANGED <<topology, source>>
  BY DEF Visit
<1> QED
  BY <1>1, <1>2, <1>6, <1>7 DEF WalkInv, w

LEMMA WalkStep ==
    ASSUME IInv, WalkInv, [Next]_vars
    PROVE  WalkInv'
<1>1. TypeInv /\ TypeOK'
  BY TypeStep DEF IInv, TypeInv
<1>2. CASE BeginRoute
  BY <1>1, <1>2, BeginRouteWalk
<1>3. ASSUME NEW u \in DOMAIN nextHop, Visit(u)
      PROVE  WalkInv'
  BY <1>1, <1>3, VisitWalk
<1>4. CASE /\ DOMAIN nextHop' = DOMAIN nextHop
           /\ UNCHANGED <<topology, source, minDist, visited>>
  BY <1>4 DEF WalkInv
<1> QED
  BY <1>2, <1>3, <1>4
     DEF Next, AddNode, RefreshNode, BeginPush, EndPush, UpdateRoutingTable,
         VisitNearest, SendMessage, RouteWithoutNodes, ResetHop, FindNode, GetNextHop,
         ReadBeyondNextHop, ReadDuringMove, vars, tableVars
-----------------------------------------------------------------------------
(***************************************************************************)
(* Whatever the registry listed: when route() has returned, minDist is the *)
(* length of the shortest walk from the source to every node, over all     *)
(* walks of at most as many links as there are nodes, and INT_MAX where    *)
(* there is none.  Together with RouteIsShortest: the table leads along    *)
(* shortest paths, and there are no shorter ones.                          *)
(***************************************************************************)
THEOREM RoutesAreShortestPaths == Spec => []ShortestPaths
<1>1. Init => WalkInv
  <2>1. DOMAIN (<<>>) = {}
    OBVIOUS
  <2> QED
    BY <2>1 DEF Init, WalkInv
<1>2. IInv /\ WalkInv /\ [Next]_vars => WalkInv'
  BY WalkStep
<1>3. ASSUME IInv, WalkInv, Routed
      PROVE  minDist = Within(topology, source)[Len(topology)]
  <2> DEFINE n == Len(nextHop)
             w == Within(topology, source)[n]
  <2>1. /\ n \in Nat /\ DOMAIN nextHop = 1 .. n /\ Len(topology) = n
        /\ topology \in Matrix(n) /\ minDist \in Distances(n)
        /\ Cardinality(DOMAIN nextHop) = n
    BY <1>3, TableTypes DEF IInv, TypeInv
  <2>2. /\ visited = DOMAIN nextHop /\ source \in 1 .. n
        /\ minDist[source] = 0
    BY <1>3, <2>1 DEF Routed, Rounding, IInv, TableInv, DijkstraInv, SourceFirst
  <2>3. \A j \in 1 .. n : w[j] <= minDist[j]
    BY <1>3, <2>1, <2>2 DEF WalkInv
  <2>4. \A h, i \in 1 .. n :
          minDist[h] < IntMax /\ topology[h][i] # NoLink
            => minDist[i] - minDist[h] <= topology[h][i]
    BY <1>3, <2>1, <2>2 DEF IInv, DijkstraInv, VisitedRelaxed, Reached, Linked
  <2>5. n \in 0 .. n
    BY <2>1
  <2>6. \A j \in 1 .. n : minDist[j] <= w[j]
    BY <2>1, <2>2, <2>4, <2>5, NoWalkIsShorter
  <2>7. w \in Distances(n)
    BY <2>1, <2>5, WithinRecurrence
  <2> HIDE DEF w
  <2>8. \A j \in 1 .. n : minDist[j] = w[j]
    BY <2>1, <2>3, <2>6, <2>7, RoutingAssumption DEF Distances
  <2>9. minDist = w
    BY <2>1, <2>7, <2>8 DEF Distances
  <2> QED
    BY <2>1, <2>9 DEF w
<1>4. IInv /\ WalkInv => ShortestPaths
  BY <1>3 DEF ShortestPaths
<1> QED
  BY <1>1, <1>2, <1>4, Inductive, PTL DEF Spec
=============================================================================
